---- MODULE Spec2Model ----
(***************************************************************************)
(* Model of the CodeLogic MCP server's impact tools: the token slot and    *)
(* the two TTL caches of utils.py, and the tool dispatch and handlers of   *)
(* handlers.py / handlers/database_impact.py.  One tool invocation runs at *)
(* a time (the handlers call the blocking httpx client).  Every remote     *)
(* request is a pair of steps (send, receive); the wall clock `now` may    *)
(* advance while a request is in flight and between invocations.           *)
(***************************************************************************)
EXTENDS Integers, Sequences, FiniteSets, TLC

(***************************************************************************)
(* Bounds of the model.                                                    *)
(***************************************************************************)
MaxTime == 3
MaxCalls == 2

(***************************************************************************)
(* Cache TTLs.  utils.py reads them from the environment; the model runs   *)
(* with a configuration of a few clock units so that expiry happens        *)
(* within MaxTime.                                                         *)
(***************************************************************************)
TOKEN_CACHE_TTL == 3
METHOD_CACHE_TTL == 2
IMPACT_CACHE_TTL == 2

\* database_impact.py: search_results[:5]
DB_ENTITY_LIMIT == 5

(***************************************************************************)
(* Values.                                                                 *)
(***************************************************************************)
\* Python None for the token slot and for the expiry.
NoToken == 0
NoExpiry == -1

\* Strings whose content is inspected (substring tests, split) are
\* sequences of characters; "" and None are both the falsy empty sequence,
\* the handlers only test them for truthiness.
EmptyStr == <<>>

\* os.getenv("CODELOGIC_WORKSPACE_NAME") or ""
WORKSPACE_NAME == "ws"

ToolNames == {"codelogic-method-impact", "codelogic-database-impact",
              "codelogic-docker-agent", "codelogic-build-info",
              "codelogic-pipeline-helper"}
UnknownToolNames == {"codelogic-unknown"}

\* Outcomes of one httpx request: a 2xx response, httpx.TimeoutException,
\* httpx.HTTPStatusError from raise_for_status(), or another transport error.
FailureKinds == {"TimeoutException", "HTTPStatusError", "ConnectError"}

Exc(type, msg) == [type |-> type, msg |-> msg]

\* x in s for Python strings: sub occurs contiguously in s.
Contains(sub, s) ==
    \E i \in 0..(Len(s) - Len(sub)) :
        \A j \in 1..Len(sub) : s[i + j] = sub[j]

\* class_name.split(".")[-1]
RECURSIVE SplitLast(_)
SplitLast(s) ==
    IF \E i \in 1..Len(s) : s[i] = "."
    THEN SplitLast(Tail(s))
    ELSE s

\* d.get(k) with None/"" as the empty string.
Get(d, k) == IF k \in DOMAIN d THEN d[k] ELSE EmptyStr

(***************************************************************************)
(* Server data the responses are drawn from.                               *)
(***************************************************************************)
DefIds == {"d1"}
MvIds == {"v1", "v2"}

SN1 == [id |-> 1, identity |-> <<"|", "A", "|", "f">>, name |-> <<"f">>,
        primaryLabel |-> "JavaMethodEntity",
        properties |-> [id |-> 1, shortName |-> "f"]]
SN2 == [id |-> 2, identity |-> <<"|", "A", "B", "|", "f">>, name |-> <<"f">>,
        primaryLabel |-> "JavaMethodEntity",
        properties |-> [id |-> 2, shortName |-> "f"]]

\* data lists of the shortname search
SearchResponses == { <<>>, <<SN1>>, <<SN2, SN1>> }

StrippedKeys == {"agentIds", "sourceScanContextIds", "isScanRoot",
                 "transitiveSourceNodeId", "dataSourceId", "scanContextId",
                 "id", "shortName", "materializedViewId",
                 "statistics.impactScore", "codelogic.quality.impactScore",
                 "identity", "name"}

\* Raw full-impact responses for root node id r (the 'data' object).
RawGraphA(r) ==
    [nodes |-> << [id |-> r, identity |-> <<"|", "A", "|", "f">>,
                   name |-> <<"f">>, primaryLabel |-> "JavaMethodEntity",
                   properties |->
                       ("id" :> r) @@ ("name" :> "f") @@ ("identity" :> "x")
                       @@ ("agentIds" :> "a") @@ ("scanContextId" :> "s")
                       @@ ("statistics.cyclomaticComplexity" :> 12)],
                  [id |-> 9, identity |-> <<"|", "C", "|", "g">>,
                   name |-> <<"g">>, primaryLabel |-> "JavaMethodEntity",
                   properties |->
                       ("id" :> 9) @@ ("shortName" :> "g")
                       @@ ("isScanRoot" :> FALSE)
                       @@ ("statistics.impactScore" :> 3)] >>,
     relationships |-> << [startId |-> 9, endId |-> r, type |-> "CALLS"] >>]

RawGraphB(r) ==
    [nodes |-> << [id |-> r, identity |-> <<"|", "A", "|", "f">>,
                   name |-> <<"f">>, primaryLabel |-> "JavaMethodEntity",
                   properties |->
                       ("id" :> r) @@ ("materializedViewId" :> "v1")
                       @@ ("dataSourceId" :> "ds")
                       @@ ("sourceScanContextIds" :> "s")
                       @@ ("transitiveSourceNodeId" :> 7)
                       @@ ("codelogic.quality.impactScore" :> 1)
                       @@ ("statistics.instructionCount" :> 40)],
                  \* a node without a 'properties' member
                  [id |-> 8, identity |-> <<"a", "p", "p">>,
                   name |-> <<"a", "p", "p">>, primaryLabel |-> "Application"] >>,
     relationships |-> << >>]

\* a response with two applications listed out of order and a relationship
\* whose start node the response does not hold
RawGraphC(r) ==
    [nodes |-> << [id |-> r, identity |-> <<"|", "A", "|", "f">>,
                   name |-> <<"f">>, primaryLabel |-> "JavaMethodEntity",
                   properties |->
                       ("id" :> r) @@ ("materializedViewId" :> "v1")
                       @@ ("dataSourceId" :> "ds")
                       @@ ("sourceScanContextIds" :> "s")
                       @@ ("transitiveSourceNodeId" :> 7)
                       @@ ("codelogic.quality.impactScore" :> 1)
                       @@ ("statistics.instructionCount" :> 40)],
                  \* a node without a 'properties' member
                  [id |-> 8, identity |-> <<"a", "p", "p">>,
                   name |-> <<"a", "p", "p">>, primaryLabel |-> "Application"],
                  [id |-> 7, identity |-> <<"a", "b">>,
                   name |-> <<"a", "b">>, primaryLabel |-> "Application",
                   properties |-> ("id" :> 7)] >>,
     \* the second relationship starts at a node the response does not hold
     relationships |-> << [startId |-> 8, endId |-> 7, type |-> "REFERENCES_GROUP"],
                          [startId |-> 66, endId |-> r, type |-> "CALLS"],
                          [startId |-> 7, endId |-> r, type |-> "GROUPS"] >>]

\* the impact of a database entity
RawGraphDb(r) ==
    [nodes |-> << [id |-> r, identity |-> <<"d", "b">>, name |-> <<"t">>,
                   primaryLabel |-> "Table",
                   properties |-> ("id" :> r) @@ ("dataSourceId" :> "ds")
                                  @@ ("schema" :> "dbo")] >>,
     relationships |-> << >>]

RawGraphs(r) == IF r > 10 THEN {RawGraphDb(r)} ELSE {RawGraphA(r), RawGraphB(r)}

RepeatGraphs(r) == {RawGraphA(r), RawGraphB(r), RawGraphC(r)}

(***************************************************************************)
(* utils.strip_unused_properties                                           *)
(***************************************************************************)
\* mutant: the duplicate 'name' property is kept
StripNodeKeepName(n) ==
    IF "properties" \in DOMAIN n
    THEN [n EXCEPT !.properties =
              [k \in (DOMAIN n.properties) \ (StrippedKeys \ {"name"})
                   |-> n.properties[k]]]
    ELSE n

StripNode(n) ==
    IF "properties" \in DOMAIN n
    THEN [n EXCEPT !.properties =
              [k \in (DOMAIN n.properties) \ StrippedKeys |-> n.properties[k]]]
    ELSE n

strip_unused_properties(data) ==
    [data EXCEPT !.nodes = [i \in 1..Len(data.nodes) |-> StripNode(data.nodes[i])]]

(***************************************************************************)
(* Text blocks.  A text is represented by the parts the f-string is built  *)
(* from.                                                                   *)
(***************************************************************************)
TextContent(text) == [type |-> "text", text |-> text]

\* handlers.handle_call_tool, the except clause
ErrorBlocks(tool, e) ==
    << TextContent([kind |-> "Error", tool |-> tool, message |-> e.msg,
                    logs |-> "Please check the server logs for more details."]) >>

\* mutant: the except clause catches ValueError only
CallToolExceptValueError(tool, e) ==
    IF e.type = "ValueError"
    THEN [raised |-> FALSE, blocks |-> ErrorBlocks(tool, e)]
    ELSE [raised |-> TRUE, blocks |-> <<>>]

CallToolExcept(tool, e) == [raised |-> FALSE, blocks |-> ErrorBlocks(tool, e)]

Returned(blocks) == [raised |-> FALSE, blocks |-> blocks]

\* mutant: an empty search result is answered with an empty list
UnableBlocksEmpty(method_name) == << >>

UnableBlocks(method_name) ==
    << TextContent([kind |-> "UnableToAnalyzeMethod", method |-> method_name]) >>


(***************************************************************************)
(* handlers.handle_method_impact: what the report is computed from.        *)
(***************************************************************************)
\* dict.get(k) of an absent key (None), and the default 'N/A' of the metrics
None == -1
NotAvailable == -2

PropGet(props, k, default) == IF k \in DOMAIN props THEN props[k] ELSE default

\* str.lower() over the letters the model's names are written with
LowerChar(c) ==
    CASE c = "A" -> "a"
      [] c = "B" -> "b"
      [] c = "C" -> "c"
      [] c = "F" -> "f"
      [] c = "G" -> "g"
      [] OTHER -> c

Lower(str) == [i \in 1..Len(str) |-> LowerChar(str[i])]

\* utils.extract_nodes: the five members of every node, properties {} if absent
extract_nodes(impact_data) ==
    [i \in 1..Len(impact_data.nodes) |->
        LET n == impact_data.nodes[i]
        IN  [id |-> n.id, identity |-> n.identity, name |-> n.name,
             primaryLabel |-> n.primaryLabel,
             properties |-> IF "properties" \in DOMAIN n
                            THEN n.properties
                            ELSE [k \in {} |-> None]]]

\* utils.find_node_by_id: the first node with that id, as a list of 0 or 1
find_node_by_id(ns, id) ==
    LET hits == SelectSeq(ns, LAMBDA n : n.id = id)
    IN  IF hits = <<>> THEN <<>> ELSE <<hits[1]>>

method_entity_types == <<"JavaMethodEntity", "DotNetMethodEntity">>

\* the candidates: per entity type in turn, the nodes of that type whose name
\* contains the method name, narrowed by the class name if that leaves any
method_nodes(ns, m, c) ==
    LET of_type(t) == SelectSeq(ns, LAMBDA n :
                          n.primaryLabel = t /\ Contains(Lower(m), Lower(n.name)))
        all == of_type(method_entity_types[1]) \o of_type(method_entity_types[2])
        class_filtered_nodes ==
            SelectSeq(all, LAMBDA n : Contains(Lower(c), Lower(n.identity)))
    IN  IF c # EmptyStr /\ class_filtered_nodes # <<>>
        THEN class_filtered_nodes
        ELSE all

HasComplexity(n) ==
    PropGet(n.properties, "statistics.cyclomaticComplexity", None) # None

\* the fallback: the node whose properties carry the id of the root node
root_by_property_id(ns, root) ==
    LET hits == SelectSeq(ns, LAMBDA n :
                    PropGet(n.properties, "id", None)
                        = PropGet(root.properties, "id", None))
    IN  IF hits = <<>> THEN <<>> ELSE <<hits[1]>>

\* mutant: the first candidate is taken whether or not it has the metric
target_node_first(ns, m, c, root) ==
    LET cands == method_nodes(ns, m, c)
    IN  IF cands # <<>> THEN <<cands[1]>>
        ELSE root_by_property_id(ns, root)

\* target_node, as a list of 0 (None) or 1 node
target_node(ns, m, c, root) ==
    LET cands == method_nodes(ns, m, c)
        with_metrics == SelectSeq(cands, HasComplexity)
    IN  IF with_metrics # <<>> THEN <<with_metrics[1]>>
        ELSE IF cands # <<>> THEN <<cands[1]>>
        ELSE root_by_property_id(ns, root)

\* target_node['properties'].get(key, 'N/A') if target_node else 'N/A'
target_metric(target, key) ==
    IF target = <<>> THEN NotAvailable
    ELSE PropGet(target[1].properties, key, NotAvailable)

\* the relationships that end in the node with the id of the root node
dependents(impact_data, root) ==
    LET incoming == SelectSeq(impact_data.relationships, LAMBDA rel :
                        /\ find_node_by_id(impact_data.nodes, rel.startId) # <<>>
                        /\ find_node_by_id(impact_data.nodes, rel.endId) # <<>>
                        /\ find_node_by_id(impact_data.nodes, rel.endId)[1].id
                               = PropGet(root.properties, "id", None))
    IN  [i \in 1..Len(incoming) |->
            LET start_node == find_node_by_id(impact_data.nodes, incoming[i].startId)[1]
            IN  [name |-> start_node.name, type |-> start_node.primaryLabel,
                 relationship |-> incoming[i].type]]


\* app_dependencies: application name -> the names it references, in the
\* order of the relationships
app_dependencies(impact_data) ==
    LET rels == impact_data.relationships
        start_of(rel) == find_node_by_id(impact_data.nodes, rel.startId)
        end_of(rel) == find_node_by_id(impact_data.nodes, rel.endId)
        refs == SelectSeq(rels, LAMBDA rel :
                    /\ rel.type = "REFERENCES_GROUP"
                    /\ start_of(rel) # <<>> /\ end_of(rel) # <<>>
                    /\ start_of(rel)[1].primaryLabel = "Application"
                    /\ end_of(rel)[1].primaryLabel = "Application"
                    /\ start_of(rel)[1].name # EmptyStr)
        from(a) == SelectSeq(refs, LAMBDA rel : start_of(rel)[1].name = a)
    IN  [a \in {start_of(refs[i])[1].name : i \in 1..Len(refs)} |->
            [j \in 1..Len(from(a)) |-> end_of(from(a)[j])[1].name]]

\* mutant: only the applications with an explicit dependency are counted
affected_applications_referencing(impact_data) ==
    DOMAIN app_dependencies(impact_data)

\* the names of the applications found affected
affected_applications(impact_data) ==
    LET ns == extract_nodes(impact_data)
        app_nodes == SelectSeq(ns, LAMBDA n : n.primaryLabel = "Application")
        app_ids == {app_nodes[i].id : i \in 1..Len(app_nodes)}
        app_id_to_name(g) ==
            app_nodes[CHOOSE i \in 1..Len(app_nodes) :
                 /\ app_nodes[i].id = g
                 /\ \A j \in (i + 1)..Len(app_nodes) : app_nodes[j].id # g].name
        rels == impact_data.relationships
        start_of(rel) == find_node_by_id(impact_data.nodes, rel.startId)
        end_of(rel) == find_node_by_id(impact_data.nodes, rel.endId)
    IN  {app_nodes[i].name : i \in 1..Len(app_nodes)}
        \cup UNION { {app_id_to_name(g) :
                         g \in {ns[i].properties["groupIds"][j] :
                                  j \in 1..Len(ns[i].properties["groupIds"])}
                               \cap app_ids} :
                     i \in {i \in 1..Len(ns) : "groupIds" \in DOMAIN ns[i].properties} }
        \cup {start_of(rels[i])[1].name :
                 i \in {i \in 1..Len(rels) :
                     /\ rels[i].type = "GROUPS"
                     /\ start_of(rels[i]) # <<>>
                     /\ start_of(rels[i])[1].primaryLabel = "Application"}}
        \cup {start_of(rels[i])[1].name :
                 i \in {i \in 1..Len(rels) :
                     /\ rels[i].type = "REFERENCES_GROUP"
                     /\ start_of(rels[i]) # <<>> /\ end_of(rels[i]) # <<>>
                     /\ start_of(rels[i])[1].primaryLabel = "Application"
                     /\ end_of(rels[i])[1].primaryLabel = "Application"
                     /\ start_of(rels[i])[1].name # EmptyStr}}

\* utils.find_api_endpoints: the three kinds of REST signal
ControllerLabels == {"RestController", "ApiController"}
RestAnnotations == {"GetMapping", "PostMapping", "RequestMapping", "HttpGet"}

endpoint_nodes(ns) ==
    SelectSeq(ns, LAMBDA n : /\ n.primaryLabel = "Endpoint"
                             /\ "httpVerb" \in DOMAIN n.properties
                             /\ "path" \in DOMAIN n.properties)

api_controllers(ns) == SelectSeq(ns, LAMBDA n : n.primaryLabel \in ControllerLabels)

rest_endpoints(ns) ==
    SelectSeq(ns, LAMBDA n :
        /\ n.primaryLabel \in {"JavaMethodEntity", "DotNetMethodEntity"}
        /\ PropGet(n.properties, "annotations", "") \in RestAnnotations)

\* mutant: a complexity of exactly 10 is flagged too
complexity_warning_inclusive(complexity) ==
    complexity \notin {NotAvailable, None} /\ complexity >= 10

\* complexity not in ('N/A', None) and float(complexity) > 10
complexity_warning(complexity) ==
    complexity \notin {NotAvailable, None} /\ complexity > 10

\* the code point of a character, over the characters of the model's names
CodePoint(c) ==
    CASE c = "/" -> 47
      [] c = "1" -> 49
      [] c = "2" -> 50
      [] c = "A" -> 65
      [] c = "B" -> 66
      [] c = "C" -> 67
      [] c = "F" -> 70
      [] c = "a" -> 97
      [] c = "b" -> 98
      [] c = "f" -> 102
      [] c = "g" -> 103
      [] c = "p" -> 112
      [] c = "t" -> 116
      [] OTHER -> 124

\* s < t for Python strings: the first differing character decides, a proper
\* prefix comes first
StrLess(s, t) ==
    \E k \in 1..(Len(t)) :
        /\ \A j \in 1..(k - 1) : j <= Len(s) /\ s[j] = t[j]
        /\ \/ k = Len(s) + 1
           \/ k <= Len(s) /\ CodePoint(s[k]) < CodePoint(t[k])

\* mutant: the applications are listed as the set hands them out, here from
\* the greatest name down
RECURSIVE sorted_reverse(_)
sorted_reverse(names) ==
    IF names = {} THEN <<>>
    ELSE LET m == CHOOSE x \in names : \A y \in names \ {x} : StrLess(y, x)
         IN  <<m>> \o sorted_reverse(names \ {m})

\* sorted(affected_applications)
RECURSIVE sorted(_)
sorted(names) ==
    IF names = {} THEN <<>>
    ELSE LET m == CHOOSE x \in names : \A y \in names \ {x} : StrLess(x, y)
         IN  <<m>> \o sorted(names \ {m})

\* the rows of the cross-application section and of the application
\* dependency graph: one per affected application, with what it depends on
application_rows(impact_data) ==
    LET apps == affected_applications(impact_data)
        deps == app_dependencies(impact_data)
        order == sorted(apps)
    IN  IF Cardinality(apps) > 1
        THEN [i \in 1..Len(order) |->
                 [app |-> order[i],
                  deps |-> IF order[i] \in DOMAIN deps THEN deps[order[i]] ELSE <<>>]]
        ELSE <<>>

\* nodes_table: one row per extracted node
nodes_table(ns) ==
    [i \in 1..Len(ns) |->
        LET node_complexity ==
                PropGet(ns[i].properties, "statistics.cyclomaticComplexity", NotAvailable)
        IN  [name |-> ns[i].name, type |-> ns[i].primaryLabel,
             complexity |-> node_complexity,
             high |-> complexity_warning(node_complexity),
             instructions |->
                 PropGet(ns[i].properties, "statistics.instructionCount", NotAvailable),
             methods |->
                 PropGet(ns[i].properties, "statistics.methodCount", NotAvailable)]]

\* relationship_rows and the relationship table: one row per relationship
\* whose start and end node are both in the graph
relationship_table(method_name, class_name, impact_data) ==
    LET start_of(rel) == find_node_by_id(impact_data.nodes, rel.startId)
        end_of(rel) == find_node_by_id(impact_data.nodes, rel.endId)
        rels == SelectSeq(impact_data.relationships, LAMBDA rel :
                    start_of(rel) # <<>> /\ end_of(rel) # <<>>)
        named(x, row) == \/ Contains(Lower(x), Lower(row.source))
                         \/ Contains(Lower(x), Lower(row.target))
        Row(rel) == [type |-> rel.type,
                     source |-> start_of(rel)[1].name,
                     source_type |-> start_of(rel)[1].primaryLabel,
                     target |-> end_of(rel)[1].name,
                     target_type |-> end_of(rel)[1].primaryLabel]
    IN  [i \in 1..Len(rels) |->
            [row |-> Row(rels[i]),
             highlight |-> /\ named(method_name, Row(rels[i]))
                           /\ class_name # EmptyStr
                           /\ named(class_name, Row(rels[i]))]]

\* handlers.handle_method_impact, the report: the parts its text is written
\* from (the summary, the risk assessment, the dependents, the tables)
ReportBlocks(method_name, class_name, impact_data, root) ==
    LET ns == extract_nodes(impact_data)
        target == target_node(ns, method_name, class_name, root)
        complexity == target_metric(target, "statistics.cyclomaticComplexity")
        apps == affected_applications(impact_data)
        deps == app_dependencies(impact_data)
    IN  << TextContent(
             [kind |-> "ImpactAnalysisForMethod", method |-> method_name,
              class |-> class_name, data |-> impact_data,
              complexity |-> complexity,
              instruction_count |->
                  target_metric(target, "statistics.instructionCount"),
              affected_applications |-> apps,
              complexity_warning |-> complexity_warning(complexity),
              cross_application |->
                  IF Cardinality(apps) > 1
                  THEN [a \in apps |-> IF a \in DOMAIN deps THEN deps[a] ELSE <<>>]
                  ELSE [a \in {} |-> <<>>],
              cross_application_warning |-> Cardinality(apps) > 1,
              rest_alert |-> \/ rest_endpoints(ns) # <<>>
                             \/ api_controllers(ns) # <<>>
                             \/ endpoint_nodes(ns) # <<>>,
              dependents |-> dependents(impact_data, root),
              application_rows |-> application_rows(impact_data),
              nodes_table |-> nodes_table(ns),
              relationship_table |->
                  relationship_table(method_name, class_name, impact_data)]) >>

(***************************************************************************)
(* State.                                                                  *)
(***************************************************************************)
VARIABLES
    now,                 \* the wall clock, datetime.now()
    cached_token,        \* utils._cached_token
    token_expiry,        \* utils._token_expiry
    method_nodes_cache,  \* utils._method_nodes_cache: key -> <<nodes, expiry>>
    impact_cache,        \* utils._impact_cache: id -> <<impact, expiry>>
    pc,                  \* position of the running tool invocation
    name,                \* handle_call_tool: the tool name
    arguments,           \* handle_call_tool: the argument mapping
    caller,              \* which function called authenticate()
    anow,                \* authenticate: its local `now`
    fnow,                \* get_method_nodes / get_impact: their local `now`
    token,               \* the local `token` of the function sending requests
    token_exp,           \* the expiry recorded in the slot for `token` (history)
    mv_def_id,           \* get_mv_id: the definition id
    mv_id,               \* handle_method_impact: the view id
    nodes,               \* handle_method_impact: the search result
    node,                \* handle_method_impact: the selected root node
    impact_id,           \* get_impact: its argument `id`
    impact,              \* the value get_impact returned
    search_results,      \* handle_database_impact: the matched entities
    idx,                 \* handle_database_impact: position of the loop
    all_impacts,         \* handle_database_impact: the impact summaries
    skipped,             \* handle_database_impact: entities logged and skipped
    result,              \* what handle_call_tool returned last
    calls,               \* number of finished invocations
    reqs,                \* requests sent by the running invocation (history)
    issued,              \* number of tokens the server has issued (history)
    last_nodes,          \* last node list fetched per cache key (history)
    last_impact,         \* last impact fetched and stripped per id (history)
    last_report,         \* reports written per arguments and graph (SpecRepeat)
    threads              \* the authenticate() calls of concurrent callers

slot == <<cached_token, token_expiry>>
caches == <<method_nodes_cache, impact_cache>>
history == <<issued, last_nodes, last_impact, last_report>>
frame == <<name, arguments, caller, anow, fnow, token, token_exp, mv_def_id, mv_id, nodes,
           node, impact_id, impact, search_results, idx, all_impacts, skipped>>
vars == <<now, cached_token, token_expiry, method_nodes_cache, impact_cache, pc,
          name, arguments, caller, anow, fnow, token, token_exp, mv_def_id, mv_id,
          nodes, node, impact_id, impact, search_results, idx, all_impacts, skipped,
          result, calls, reqs, issued, last_nodes, last_impact, last_report,
          threads>>

NoNode == [id |-> 0]
NoImpact == [nodes |-> <<>>, relationships |-> <<>>, none |-> TRUE]
NoResult == [raised |-> FALSE, blocks |-> <<>>]

Init ==
    /\ now = 0
    /\ cached_token = NoToken
    /\ token_expiry = NoExpiry
    /\ method_nodes_cache = <<>>
    /\ impact_cache = <<>>
    /\ pc = "idle"
    /\ name = ""
    /\ arguments = <<>>
    /\ caller = ""
    /\ anow = 0
    /\ fnow = 0
    /\ token = NoToken
    /\ token_exp = NoExpiry
    /\ mv_def_id = ""
    /\ mv_id = ""
    /\ nodes = <<>>
    /\ node = NoNode
    /\ impact_id = 0
    /\ impact = NoImpact
    /\ search_results = <<>>
    /\ idx = 0
    /\ all_impacts = <<>>
    /\ skipped = <<>>
    /\ result = NoResult
    /\ calls = 0
    /\ reqs = <<>>
    /\ issued = 0
    /\ last_nodes = <<>>
    /\ last_impact = <<>>
    /\ last_report = <<>>
    /\ threads = <<>>

Request(kind, tok, exp, arg) ==
    [kind |-> kind, token |-> tok, expiry |-> exp, time |-> now, arg |-> arg,
     outcome |-> "pending"]

\* the log with the outcome of the request in flight filled in
Answered(o) == [reqs EXCEPT ![Len(reqs)].outcome = o]

\* positions at which a request is in flight
WaitPcs == {"wait_auth", "wait_def", "wait_view", "wait_search", "wait_impact",
            "wait_dbsearch"}

\* The clock advances while a request is in flight and between invocations.
Tick ==
    /\ pc \in WaitPcs \cup {"idle"}
    /\ now < MaxTime
    /\ now' = now + 1
    /\ UNCHANGED <<slot, caches, pc, frame, result, calls, reqs, history, threads>>

\* handle_call_tool returns `res` (a handler's return value, or the error
\* block of its except clause).
Finish(res) ==
    /\ result' = res
    /\ pc' = "done"
    /\ UNCHANGED calls


(***************************************************************************)
(* Locals of handle_method_impact derived from the arguments.              *)
(***************************************************************************)
method_name == Get(arguments, "method")

class_name ==
    LET c == Get(arguments, "class")
    IN  IF c # EmptyStr /\ Contains(<<".">>, c) THEN SplitLast(c) ELSE c

\* f"{materialized_view_id}:{short_name}"
cache_key(mv, short) == <<mv, short>>

\* mutant: the search is sent with the definition id instead of the view id
search_params_definition(mv, short) == <<mv_def_id, short>>

\* params = {"materializedViewId": ..., "shortname": ...}
search_params(mv, short) == <<mv, short>>

(***************************************************************************)
(* Where a raised exception ends up.                                       *)
(***************************************************************************)
\* the except clause of handle_call_tool
ToDispatch(e) ==
    /\ Finish(CallToolExcept(name, e))
    /\ UNCHANGED <<nodes, idx, skipped>>

\* mutant: get_method_nodes lets the exception through to its caller
get_method_nodes_reraise(e) == ToDispatch(e)

\* the except clauses of get_method_nodes: every exception becomes []
get_method_nodes_except(e) ==
    /\ pc' = "select"
    /\ nodes' = <<>>
    /\ UNCHANGED <<result, calls, idx, skipped>>

\* mutant: the loop of handle_database_impact tries the same entity again
database_impact_retry(e) ==
    /\ pc' = "db_loop"
    /\ UNCHANGED <<result, calls, nodes, idx, skipped>>

\* mutant: the loop of handle_database_impact lets the exception through
database_impact_abort(e) == ToDispatch(e)

\* the except clause in the loop of handle_database_impact: log and go on
database_impact_except(e) ==
    /\ pc' = "db_loop"
    /\ skipped' = Append(skipped, idx)
    /\ idx' = idx + 1
    /\ UNCHANGED <<result, calls, nodes>>

\* mutant: get_impact swallows the exception and its caller goes on
get_impact_swallow(e) ==
    /\ pc' = "report"
    /\ UNCHANGED <<result, calls, nodes, idx, skipped>>

\* get_impact has no handler: the exception reaches its caller
get_impact_raise(e) ==
    IF name = "codelogic-database-impact"
    THEN database_impact_except(e)
    ELSE ToDispatch(e)

\* mutant: authenticate starts over after a failed exchange
authenticate_retry(e) ==
    /\ pc' = "auth"
    /\ UNCHANGED <<result, calls, nodes, idx, skipped>>

\* authenticate re-raises: the exception reaches the function that called it
authenticate_raise(e) ==
    CASE caller = "get_mv_id" -> ToDispatch(e)
      [] caller = "get_method_nodes" -> get_method_nodes_except(e)
      [] caller = "get_impact" -> get_impact_raise(e)

(***************************************************************************)
(* utils.authenticate                                                      *)
(***************************************************************************)
\* mutant: the token is still returned at the instant of its expiry
TokenValidInclusive ==
    /\ cached_token # NoToken
    /\ token_expiry # NoExpiry
    /\ now <= token_expiry

\* the test that guards the cached token
TokenValid ==
    /\ cached_token # NoToken
    /\ token_expiry # NoExpiry
    /\ now < token_expiry

\* authenticate returned tok: its caller sends its request with it
AfterAuth(tok, exp, log) ==
    /\ token' = tok
    /\ token_exp' = exp
    /\ CASE caller = "get_mv_id" ->
              /\ pc' = "wait_def"
              /\ reqs' = Append(log, Request("def", tok, exp, WORKSPACE_NAME))
         [] caller = "get_method_nodes" ->
              /\ pc' = "wait_search"
              /\ reqs' = Append(log, Request("search", tok, exp,
                                             search_params(mv_id, method_name)))
         [] caller = "get_impact" ->
              /\ pc' = "wait_impact"
              /\ reqs' = Append(log, Request("impact", tok, exp, impact_id))

authenticate ==
    /\ pc = "auth"
    /\ anow' = now
    /\ IF TokenValid
       THEN AfterAuth(cached_token, token_expiry, reqs)
       ELSE /\ pc' = "wait_auth"
            /\ reqs' = Append(reqs, Request("auth", NoToken, NoExpiry, "password"))
            /\ UNCHANGED <<token, token_exp>>
    /\ UNCHANGED <<now, slot, caches, name, arguments, caller, fnow, mv_def_id,
                   mv_id, nodes, node, impact_id, impact, search_results, idx,
                   all_impacts, skipped, result, calls, history, threads>>

\* mutant: the expiry is counted from the arrival of the response
StoreTokenAtArrival(tok) ==
    /\ cached_token' = tok
    /\ token_expiry' = now + TOKEN_CACHE_TTL

\* _cached_token = ...; _token_expiry = now + timedelta(seconds=TOKEN_CACHE_TTL)
StoreToken(tok) ==
    /\ cached_token' = tok
    /\ token_expiry' = anow + TOKEN_CACHE_TTL

authenticate_response ==
    /\ pc = "wait_auth"
    /\ \/ LET tok == issued + 1     \* the server issues a new token
          IN  /\ StoreToken(tok)
              /\ issued' = tok
              /\ AfterAuth(tok, token_expiry', Answered("ok"))
              /\ UNCHANGED <<nodes, idx, skipped, result, calls>>
       \/ \E k \in FailureKinds :
              /\ authenticate_raise(Exc(k, "authenticate"))
              /\ reqs' = Answered("failed")
              /\ UNCHANGED <<slot, issued, token, token_exp>>
    /\ UNCHANGED <<now, caches, name, arguments, caller, anow, fnow, mv_def_id,
                   mv_id, node, impact_id, impact, search_results,
                   all_impacts, last_nodes, last_impact, last_report, threads>>

(***************************************************************************)
(* utils.get_mv_id: get_mv_definition_id, then get_mv_id_from_def          *)
(***************************************************************************)
\* mutant: the status of the response is not checked and the caller goes on
raise_for_status_ignored(e) ==
    /\ pc' = "get_method_nodes"
    /\ UNCHANGED <<result, calls, nodes, idx, skipped>>

\* response.raise_for_status() in get_mv_definition_id / get_mv_id_from_def:
\* nothing catches it before handle_call_tool
raise_for_status(e) == ToDispatch(e)

get_mv_definition_id_response ==
    /\ pc = "wait_def"
    /\ \/ \E d \in DefIds :
              /\ mv_def_id' = d
              /\ pc' = "wait_view"
              /\ reqs' = Append(Answered("ok"), Request("view", token, token_exp, d))
              /\ UNCHANGED <<result, calls, nodes, idx, skipped>>
       \/ \E k \in FailureKinds :
              /\ raise_for_status(Exc(k, "materialized-view-definition"))
              /\ reqs' = Answered("failed")
              /\ UNCHANGED mv_def_id
    /\ UNCHANGED <<now, slot, caches, name, arguments, caller, anow, fnow, token,
                   token_exp, mv_id, node, impact_id, impact, search_results,
                   all_impacts, history, threads>>

get_mv_id_from_def_response ==
    /\ pc = "wait_view"
    /\ \/ \E v \in MvIds :
              /\ mv_id' = v
              /\ pc' = "get_method_nodes"
              /\ reqs' = Answered("ok")
              /\ UNCHANGED <<result, calls, nodes, idx, skipped>>
       \/ \E k \in FailureKinds :
              /\ raise_for_status(Exc(k, "materialized-view"))
              /\ reqs' = Answered("failed")
              /\ UNCHANGED mv_id
    /\ UNCHANGED <<now, slot, caches, name, arguments, caller, anow, fnow, token,
                   token_exp, mv_def_id, node, impact_id, impact, search_results,
                   all_impacts, history, threads>>


(***************************************************************************)
(* utils.get_method_nodes                                                  *)
(***************************************************************************)
\* mutant: an entry is still served at the instant of its expiry
CacheFreshInclusive(cache, key) == key \in DOMAIN cache /\ now <= cache[key][2]

\* `key in cache` and `now < expiry`
CacheFresh(cache, key) == key \in DOMAIN cache /\ now < cache[key][2]

\* mutant: storing an entry evicts the entries that have expired
CachePutEvicting(cache, key, value, ttl) ==
    (key :> <<value, fnow + ttl>>)
        @@ [k \in {k \in DOMAIN cache : now < cache[k][2]} |-> cache[k]]

\* cache[key] = (value, now + timedelta(seconds=ttl)), `now` the local one
CachePut(cache, key, value, ttl) == (key :> <<value, fnow + ttl>>) @@ cache

\* mutant: a cached node list is served only while the token is valid
get_method_nodes_with_token ==
    /\ pc = "get_method_nodes"
    /\ fnow' = now
    /\ LET key == cache_key(mv_id, method_name)
       IN  IF CacheFresh(method_nodes_cache, key) /\ TokenValid
           THEN /\ nodes' = method_nodes_cache[key][1]
                /\ pc' = "select"
                /\ UNCHANGED caller
           ELSE /\ caller' = "get_method_nodes"
                /\ pc' = "auth"
                /\ UNCHANGED nodes
    /\ UNCHANGED <<now, slot, caches, name, arguments, anow, token, token_exp, mv_def_id,
                   mv_id, node, impact_id, impact, search_results, idx,
                   all_impacts, skipped, result, calls, reqs, history, threads>>

get_method_nodes ==
    /\ pc = "get_method_nodes"
    /\ fnow' = now
    /\ LET key == cache_key(mv_id, method_name)
       IN  IF CacheFresh(method_nodes_cache, key)
           THEN /\ nodes' = method_nodes_cache[key][1]
                /\ pc' = "select"
                /\ UNCHANGED caller
           ELSE /\ caller' = "get_method_nodes"
                /\ pc' = "auth"
                /\ UNCHANGED nodes
    /\ UNCHANGED <<now, slot, caches, name, arguments, anow, token, token_exp, mv_def_id,
                   mv_id, node, impact_id, impact, search_results, idx,
                   all_impacts, skipped, result, calls, reqs, history, threads>>

\* mutant: the empty list a failed search is answered with is cached
get_method_nodes_response_cached_failure ==
    /\ pc = "wait_search"
    /\ \/ \E data \in SearchResponses :
              LET key == cache_key(mv_id, method_name)
              IN  /\ method_nodes_cache' =
                         CachePut(method_nodes_cache, key, data, METHOD_CACHE_TTL)
                  /\ last_nodes' = (key :> data) @@ last_nodes
                  /\ nodes' = data
                  /\ pc' = "select"
                  /\ reqs' = Answered("ok")
                  /\ UNCHANGED <<result, calls, idx, skipped>>
       \/ \E k \in FailureKinds :
              /\ get_method_nodes_except(Exc(k, "search/shortname"))
              /\ reqs' = Answered("failed")
              /\ method_nodes_cache' =
                     CachePut(method_nodes_cache, cache_key(mv_id, method_name),
                              <<>>, METHOD_CACHE_TTL)
              /\ UNCHANGED last_nodes
    /\ UNCHANGED <<now, slot, impact_cache, name, arguments, caller, anow, fnow,
                   token, token_exp, mv_def_id, mv_id, node, impact_id, impact,
                   search_results, all_impacts, issued, last_impact, last_report, threads>>

get_method_nodes_response ==
    /\ pc = "wait_search"
    /\ \/ \E data \in SearchResponses :
              LET key == cache_key(mv_id, method_name)
              IN  /\ method_nodes_cache' =
                         CachePut(method_nodes_cache, key, data, METHOD_CACHE_TTL)
                  /\ last_nodes' = (key :> data) @@ last_nodes
                  /\ nodes' = data
                  /\ pc' = "select"
                  /\ reqs' = Answered("ok")
                  /\ UNCHANGED <<result, calls, idx, skipped>>
       \/ \E k \in FailureKinds :
              /\ get_method_nodes_except(Exc(k, "search/shortname"))
              /\ reqs' = Answered("failed")
              /\ UNCHANGED <<method_nodes_cache, last_nodes>>
    /\ UNCHANGED <<now, slot, impact_cache, name, arguments, caller, anow, fnow,
                   token, token_exp, mv_def_id, mv_id, node, impact_id, impact,
                   search_results, all_impacts, issued, last_impact, last_report, threads>>

(***************************************************************************)
(* handlers.handle_method_impact: empty result, selection of the root node *)
(***************************************************************************)
\* mutant: the class name is looked for anywhere in the identity
ClassMatchesSubstring(n, c) == Contains(c, n.identity)

\* f"|{class_name}|" in identity or f"|{class_name}.class|" in identity
ClassMatches(n, c) ==
    \/ Contains(<<"|">> \o c \o <<"|">>, n.identity)
    \/ Contains(<<"|">> \o c \o <<".", "c", "l", "a", "s", "s", "|">>, n.identity)

\* next((n for n in nodes if ...), None): index of the first match, 0 if none
FirstClassMatch(ns, c) ==
    IF \E i \in 1..Len(ns) : ClassMatches(ns[i], c)
    THEN CHOOSE i \in 1..Len(ns) :
             /\ ClassMatches(ns[i], c)
             /\ \A j \in 1..(i - 1) : ~ClassMatches(ns[j], c)
    ELSE 0

select_root ==
    /\ pc = "select"
    /\ IF nodes = <<>>
       THEN /\ Finish(Returned(UnableBlocks(method_name)))
            /\ UNCHANGED <<node, impact_id>>
       ELSE IF class_name # EmptyStr /\ FirstClassMatch(nodes, class_name) = 0
       THEN /\ Finish(CallToolExcept(name, Exc("ValueError", "No matching class found")))
            /\ UNCHANGED <<node, impact_id>>
       ELSE LET n == IF class_name # EmptyStr
                     THEN nodes[FirstClassMatch(nodes, class_name)]
                     ELSE nodes[1]
            IN  /\ node' = n
                /\ impact_id' = n.properties.id
                /\ pc' = "get_impact"
                /\ UNCHANGED <<result, calls>>
    /\ UNCHANGED <<now, slot, caches, name, arguments, caller, anow, fnow, token,
                   token_exp, mv_def_id, mv_id, nodes, impact, search_results, idx,
                   all_impacts, skipped, reqs, history, threads>>

(***************************************************************************)
(* utils.get_impact                                                        *)
(***************************************************************************)
\* where the caller of get_impact continues with the returned value
AfterImpactPc ==
    IF name = "codelogic-database-impact" THEN "db_process" ELSE "report"

get_impact ==
    /\ pc = "get_impact"
    /\ fnow' = now
    /\ IF CacheFresh(impact_cache, impact_id)
       THEN /\ impact' = impact_cache[impact_id][1]
            /\ pc' = AfterImpactPc
            /\ UNCHANGED caller
       ELSE /\ caller' = "get_impact"
            /\ pc' = "auth"
            /\ UNCHANGED impact
    /\ UNCHANGED <<now, slot, caches, name, arguments, anow, token, token_exp, mv_def_id,
                   mv_id, nodes, node, impact_id, search_results, idx,
                   all_impacts, skipped, result, calls, reqs, history, threads>>

get_impact_response(graphs) ==
    /\ pc = "wait_impact"
    /\ \/ \E raw \in graphs :
              LET stripped == strip_unused_properties(raw)
              IN  /\ impact_cache' =
                         CachePut(impact_cache, impact_id, stripped, IMPACT_CACHE_TTL)
                  /\ last_impact' = (impact_id :> stripped) @@ last_impact
                  /\ impact' = stripped
                  /\ pc' = AfterImpactPc
                  /\ reqs' = Answered("ok")
                  /\ UNCHANGED <<result, calls, nodes, idx, skipped>>
       \/ \E k \in FailureKinds :
              /\ get_impact_raise(Exc(k, "dependency/impact/full"))
              /\ reqs' = Answered("failed")
              /\ UNCHANGED <<impact_cache, last_impact, impact>>
    /\ UNCHANGED <<now, slot, method_nodes_cache, name, arguments, caller, anow,
                   fnow, token, token_exp, mv_def_id, mv_id, node, impact_id,
                   search_results, all_impacts, issued, last_nodes, last_report, threads>>

\* handle_method_impact after get_impact: the report
method_impact_report ==
    /\ pc = "report"
    /\ Finish(Returned(ReportBlocks(method_name, class_name, impact, node)))
    /\ UNCHANGED <<now, slot, caches, frame, reqs, history, threads>>


(***************************************************************************)
(* handlers/database_impact.handle_database_impact                         *)
(***************************************************************************)
\* d.get(k) for the arguments only compared or tested for truthiness
GetS(d, k) == IF k \in DOMAIN d THEN d[k] ELSE ""

\* the argument checks; what they raise, or NoExc
NoExc == [type |-> "", msg |-> ""]

\* mutant: the check of table_or_view for column searches is missing
database_impact_validate_no_column(a) ==
    IF DOMAIN a = {}
    THEN Exc("ValueError", "Missing arguments")
    ELSE IF GetS(a, "entity_type") = "" \/ GetS(a, "name") = ""
    THEN Exc("ValueError", "Entity type and name must be provided")
    ELSE IF GetS(a, "entity_type") \notin {"column", "table", "view"}
    THEN Exc("ValueError", "Invalid entity type")
    ELSE NoExc

database_impact_validate(a) ==
    IF DOMAIN a = {}
    THEN Exc("ValueError", "Missing arguments")
    ELSE IF GetS(a, "entity_type") = "" \/ GetS(a, "name") = ""
    THEN Exc("ValueError", "Entity type and name must be provided")
    ELSE IF GetS(a, "entity_type") \notin {"column", "table", "view"}
    THEN Exc("ValueError", "Invalid entity type")
    ELSE IF GetS(a, "entity_type") = "column" /\ GetS(a, "table_or_view") = ""
    THEN Exc("ValueError", "Table or view name must be provided for column searches")
    ELSE NoExc

\* matched entities the search may answer with
Entity(i) == [id |-> 10 + i, name |-> "orders", schema |-> "dbo"]
MaxMatched == 6
EntityLists == { [i \in 1..n |-> Entity(i)] : n \in 0..MaxMatched }
                \cup { << [id |-> 12, name |-> "orders"], Entity(1) >> }
FewEntityLists == { es \in EntityLists : Len(es) <= 1 }

NoFoundBlocks(a) ==
    << TextContent([kind |-> "NoEntitiesFound", entity_type |-> GetS(a, "entity_type"),
                    name |-> GetS(a, "name"),
                    table_or_view |-> GetS(a, "table_or_view")]) >>

\* utils.process_database_entity_impact: the summary of one entity
process_database_entity_impact(impact_data, entity_type, entity_name, entity_schema) ==
    [entity_type |-> entity_type, name |-> entity_name, schema |-> entity_schema,
     impact_data |-> impact_data]

\* utils.generate_combined_database_report: the report over its arguments
generate_combined_database_report(entity_type, nm, table_or_view, results, impacts) ==
    [kind |-> "CombinedDatabaseReport", entity_type |-> entity_type, name |-> nm,
     table_or_view |-> table_or_view, search_results |-> results,
     all_impacts |-> impacts]

\* mutant: the loop runs over the whole search result
ProcessedAll(results) == results

\* search_results[:5]
Processed(results) == SubSeq(results, 1, IF Len(results) < DB_ENTITY_LIMIT
                                         THEN Len(results) ELSE DB_ENTITY_LIMIT)

\* utils.search_database_entity answers (or fails soft with no entities)
search_database_entity_response(lists) ==
    /\ pc = "wait_dbsearch"
    /\ \/ \E sr \in lists :
              /\ search_results' = sr
              /\ reqs' = Answered("ok")
       \/ \E k \in FailureKinds :
              /\ search_results' = <<>>
              /\ reqs' = Answered("failed")
    /\ IF search_results' = <<>>
       THEN /\ Finish(Returned(NoFoundBlocks(arguments)))
            /\ UNCHANGED idx
       ELSE /\ pc' = "db_loop"
            /\ idx' = 1
            /\ UNCHANGED <<result, calls>>
    /\ UNCHANGED <<now, slot, caches, name, arguments, caller, anow, fnow, token,
                   token_exp, mv_def_id, mv_id, nodes, node, impact_id, impact,
                   all_impacts, skipped, history, threads>>

\* mutant: without a single impact the tool answers that nothing was found
database_impact_loop_nothing_found ==
    /\ pc = "db_loop"
    /\ IF idx > Len(Processed(search_results))
       THEN /\ Finish(Returned(
                   IF all_impacts = <<>>
                   THEN NoFoundBlocks(arguments)
                   ELSE << TextContent(
                            generate_combined_database_report(
                                GetS(arguments, "entity_type"), GetS(arguments, "name"),
                                GetS(arguments, "table_or_view"), search_results,
                                all_impacts)) >>))
            /\ UNCHANGED impact_id
       ELSE /\ impact_id' = search_results[idx].id
            /\ pc' = "get_impact"
            /\ UNCHANGED <<result, calls>>
    /\ UNCHANGED <<now, slot, caches, name, arguments, caller, anow, fnow, token,
                   token_exp, mv_def_id, mv_id, nodes, node, impact, search_results, idx,
                   all_impacts, skipped, reqs, history, threads>>

\* for entity in search_results[:5]: ... ; then the combined report
database_impact_loop ==
    /\ pc = "db_loop"
    /\ IF idx > Len(Processed(search_results))
       THEN /\ Finish(Returned(<< TextContent(
                   generate_combined_database_report(
                       GetS(arguments, "entity_type"), GetS(arguments, "name"),
                       GetS(arguments, "table_or_view"), search_results,
                       all_impacts)) >>))
            /\ UNCHANGED impact_id
       ELSE /\ impact_id' = search_results[idx].id
            /\ pc' = "get_impact"
            /\ UNCHANGED <<result, calls>>
    /\ UNCHANGED <<now, slot, caches, name, arguments, caller, anow, fnow, token,
                   token_exp, mv_def_id, mv_id, nodes, node, impact, search_results, idx,
                   all_impacts, skipped, reqs, history, threads>>

\* json.loads(impact), process_database_entity_impact, all_impacts.append
database_impact_process ==
    /\ pc = "db_process"
    /\ LET entity == search_results[idx]
       IN  \/ /\ all_impacts' = Append(all_impacts,
                     process_database_entity_impact(
                         impact, GetS(arguments, "entity_type"), entity.name,
                         IF "schema" \in DOMAIN entity THEN entity.schema ELSE "Unknown"))
              /\ idx' = idx + 1
              /\ pc' = "db_loop"
              /\ UNCHANGED <<skipped, result, calls, nodes>>
           \/ /\ database_impact_except(Exc("KeyError", "process_database_entity_impact"))
              /\ UNCHANGED all_impacts
    /\ UNCHANGED <<now, slot, caches, name, arguments, caller, anow, fnow, token,
                   token_exp, mv_def_id, mv_id, node, impact_id, impact, search_results,
                   reqs, history, threads>>


(***************************************************************************)
(* handlers.handle_call_tool and the entry of each handler                 *)
(***************************************************************************)
\* handle_method_impact: the argument checks
method_impact_validate(a) ==
    IF DOMAIN a = {}
    THEN Exc("ValueError", "Missing arguments")
    ELSE IF Get(a, "method") = EmptyStr
    THEN Exc("ValueError", "Method must be provided")
    ELSE NoExc

\* handle_docker_agent, handle_build_info, handle_pipeline_helper: the
\* argument checks of the template tools
AgentTypes == {"dotnet", "java", "sql", "typescript"}
CIPlatforms == {"jenkins", "github-actions", "azure-devops", "gitlab"}

template_tool_validate(n, a) ==
    IF DOMAIN a = {}
    THEN Exc("ValueError", "Missing arguments")
    ELSE IF n = "codelogic-docker-agent"
    THEN IF GetS(a, "agent_type") = "" \/ GetS(a, "scan_path") = ""
            \/ GetS(a, "application_name") = ""
         THEN Exc("ValueError", "Agent type, scan path, and application name are required")
         ELSE IF GetS(a, "agent_type") \notin AgentTypes
         THEN Exc("ValueError", "Invalid agent type")
         ELSE IF "ci_platform" \in DOMAIN a
                 /\ a.ci_platform \notin CIPlatforms \cup {"generic"}
         THEN Exc("ValueError", "Invalid CI platform")
         ELSE NoExc
    ELSE IF n = "codelogic-build-info"
    THEN IF GetS(a, "build_type") = ""
         THEN Exc("ValueError", "Build type is required")
         ELSE IF a.build_type \notin {"git-info", "build-log", "metadata", "all"}
         THEN Exc("ValueError", "Invalid build type")
         ELSE NoExc
    ELSE IF GetS(a, "ci_platform") = "" \/ GetS(a, "agent_type") = ""
         THEN Exc("ValueError", "CI platform and agent type are required")
         ELSE IF a.ci_platform \notin CIPlatforms
         THEN Exc("ValueError", "Invalid CI platform")
         ELSE IF a.agent_type \notin AgentTypes
         THEN Exc("ValueError", "Invalid agent type")
         ELSE NoExc

\* mutant: the else branch of the chain runs the method-impact handler
HandlerOfFallThrough(n) == IF n \in ToolNames THEN n ELSE "codelogic-method-impact"

\* the if/elif chain of handle_call_tool: the handler a name is routed to
HandlerOf(n) == IF n \in ToolNames THEN n ELSE "unknown"

\* argument mappings the invocations are drawn from (<<>> is None or {})
MethodArguments ==
    { <<>>,
      [class |-> <<"A">>],
      [method |-> <<"f">>],
      [method |-> <<"f">>, class |-> <<"p", ".", "A">>],
      [method |-> <<"f">>, class |-> <<"B">>] }

DatabaseArguments ==
    { <<>>,
      [entity_type |-> "table"],
      [entity_type |-> "index", name |-> "orders"],
      [entity_type |-> "column", name |-> "id"],
      [entity_type |-> "column", name |-> "id", table_or_view |-> "orders"] }

TemplateArguments ==
    { <<>>,
      [agent_type |-> "java", ci_platform |-> "jenkins"],
      [agent_type |-> "java", scan_path |-> "/src", application_name |-> "app",
       build_type |-> "all", ci_platform |-> "gitlab"],
      [agent_type |-> "cobol", scan_path |-> "/src", application_name |-> "app",
       build_type |-> "none", ci_platform |-> "gitlab"] }

ArgumentsFor(n) ==
    CASE n = "codelogic-method-impact" -> MethodArguments
      [] n = "codelogic-database-impact" -> DatabaseArguments
      [] n \in ToolNames -> TemplateArguments
      [] OTHER -> { <<>>, [method |-> <<"f">>] }

CallTool(n, a) ==
    /\ pc = "idle"
    /\ calls < MaxCalls
    /\ name' = n
    /\ arguments' = a
    /\ UNCHANGED <<anow, fnow, token, token_exp, mv_def_id, mv_id, nodes, node,
                   impact_id, impact, search_results, idx, all_impacts, skipped>>
    /\ CASE HandlerOf(n) = "codelogic-method-impact" ->
              LET e == method_impact_validate(a)
              IN  IF e # NoExc
                  THEN /\ Finish(CallToolExcept(n, e))
                       /\ caller' = ""
                       /\ reqs' = <<>>
                  ELSE /\ pc' = "auth"
                       /\ caller' = "get_mv_id"
                       /\ reqs' = <<>>
                       /\ UNCHANGED <<result, calls>>
         [] HandlerOf(n) = "codelogic-database-impact" ->
              LET e == database_impact_validate(a)
              IN  IF e # NoExc
                  THEN /\ Finish(CallToolExcept(n, e))
                       /\ caller' = ""
                       /\ reqs' = <<>>
                  ELSE /\ pc' = "wait_dbsearch"
                       /\ caller' = ""
                       /\ reqs' = << Request("dbsearch", NoToken, NoExpiry,
                                        <<a.entity_type, a.name, GetS(a, "table_or_view")>>) >>
                       /\ UNCHANGED <<result, calls>>
         [] HandlerOf(n) \in ToolNames ->
              LET e == template_tool_validate(n, a)
              IN  /\ Finish(IF e # NoExc
                            THEN CallToolExcept(n, e)
                            ELSE Returned(<< TextContent([kind |-> "Configuration",
                                                          tool |-> n]) >>))
                  /\ caller' = ""
                  /\ reqs' = <<>>
         [] OTHER ->
              /\ Finish(CallToolExcept(n, Exc("ValueError", "Unknown tool")))
              /\ caller' = ""
              /\ reqs' = <<>>
    /\ UNCHANGED <<now, slot, caches, history, threads>>

\* The result is delivered to the client; the locals of the invocation die.
return_result ==
    /\ pc = "done"
    /\ pc' = "idle"
    /\ calls' = calls + 1
    /\ name' = "" /\ arguments' = <<>> /\ caller' = ""
    /\ anow' = 0 /\ fnow' = 0 /\ token' = NoToken /\ token_exp' = NoExpiry
    /\ mv_def_id' = "" /\ mv_id' = "" /\ nodes' = <<>> /\ node' = NoNode
    /\ impact_id' = 0 /\ impact' = NoImpact /\ search_results' = <<>>
    /\ idx' = 0 /\ all_impacts' = <<>> /\ skipped' = <<>>
    /\ result' = NoResult
    /\ reqs' = <<>>
    /\ UNCHANGED <<now, slot, caches, history, threads>>

handle_call_tool == \E n \in ToolNames \cup UnknownToolNames :
                        \E a \in ArgumentsFor(n) : CallTool(n, a)

handle_database_impact == \E a \in DatabaseArguments :
                              CallTool("codelogic-database-impact", a)

\* the steps every tool invocation shares
Steps ==
    \/ authenticate
    \/ authenticate_response
    \/ get_impact
    \/ get_impact_response(RawGraphs(impact_id))
    \/ database_impact_loop
    \/ database_impact_process
    \/ return_result

Next ==
    \/ Tick
    \/ handle_call_tool
    \/ Steps
    \/ get_mv_definition_id_response
    \/ get_mv_id_from_def_response
    \/ get_method_nodes
    \/ get_method_nodes_response
    \/ select_root
    \/ method_impact_report
    \/ search_database_entity_response(FewEntityLists)

Spec == Init /\ [][Next]_vars


(***************************************************************************)
(* The method-impact tool invoked repeatedly, every report written kept in *)
(* last_report under its arguments and its graph; the clock advances       *)
(* between invocations.                                                    *)
(***************************************************************************)
handle_method_impact == \E a \in MethodArguments :
                            CallTool("codelogic-method-impact", a)

\* the report step, the report recorded
method_impact_report_recorded ==
    /\ pc = "report"
    /\ Finish(Returned(ReportBlocks(method_name, class_name, impact, node)))
    /\ last_report' = (<<arguments, impact>> :> result'.blocks) @@ last_report
    /\ UNCHANGED <<now, slot, caches, frame, reqs, issued, last_nodes, last_impact,
                   threads>>

NextRepeat ==
    \/ pc = "idle" /\ Tick
    \/ handle_method_impact
    \/ authenticate
    \/ authenticate_response
    \/ get_mv_definition_id_response
    \/ get_mv_id_from_def_response
    \/ get_method_nodes
    \/ get_method_nodes_response
    \/ select_root
    \/ get_impact
    \/ get_impact_response(RepeatGraphs(impact_id))
    \/ method_impact_report_recorded
    \/ return_result

SpecRepeat == Init /\ [][NextRepeat]_vars


(***************************************************************************)
(* The database-impact tool alone, with search results longer than the     *)
(* limit of the loop; the clock advances between invocations only.         *)
(***************************************************************************)
TickIdle == pc = "idle" /\ Tick

NextDb ==
    \/ TickIdle
    \/ handle_database_impact
    \/ Steps
    \/ search_database_entity_response(EntityLists)

SpecDb == Init /\ [][NextDb]_vars


(***************************************************************************)
(* The report of handle_method_impact over the impact graphs the server    *)
(* may answer with: the invocation has fetched the impact of the root node *)
(* SN1 and is about to write the report.                                   *)
(***************************************************************************)
MaxGraphNodes == 3

\* nodes of the raw impact responses
RawNodePool ==
    << [id |-> 1, identity |-> <<"|", "A", "|", "f">>, name |-> <<"f">>,
        primaryLabel |-> "JavaMethodEntity",
        properties |-> ("id" :> 1) @@ ("statistics.cyclomaticComplexity" :> 12)
                       @@ ("statistics.instructionCount" :> 40)],
       [id |-> 1, identity |-> <<"|", "A", "|", "f">>, name |-> <<"f">>,
        primaryLabel |-> "JavaMethodEntity",
        properties |-> ("id" :> 1) @@ ("isScanRoot" :> TRUE)],
       [id |-> 1, identity |-> <<"|", "A", "|", "f">>, name |-> <<"f">>,
        primaryLabel |-> "TypeScriptFunctionEntity",
        properties |-> ("id" :> 1) @@ ("statistics.cyclomaticComplexity" :> 12)
                       @@ ("statistics.instructionCount" :> 40)],
       [id |-> 2, identity |-> <<"|", "B", "|", "F">>, name |-> <<"F">>,
        primaryLabel |-> "DotNetMethodEntity",
        properties |-> ("id" :> 2) @@ ("statistics.cyclomaticComplexity" :> 10)],
       [id |-> 3, identity |-> <<"|", "A", "|", "f", "g">>, name |-> <<"f", "g">>,
        primaryLabel |-> "JavaMethodEntity",
        properties |-> ("id" :> 3) @@ ("statistics.cyclomaticComplexity" :> None)
                       @@ ("annotations" :> "GetMapping")
                       @@ ("groupIds" :> <<4>>)],
       [id |-> 4, identity |-> <<"a", "1">>, name |-> <<"a", "1">>,
        primaryLabel |-> "Application",
        properties |-> ("id" :> 4) @@ ("agentIds" :> "x")],
       [id |-> 5, identity |-> <<"a", "2">>, name |-> <<"a", "2">>,
        primaryLabel |-> "Application"],
       [id |-> 6, identity |-> <<"/", "g">>, name |-> <<"g">>,
        primaryLabel |-> "Endpoint",
        properties |-> ("id" :> 6) @@ ("httpVerb" :> "GET") @@ ("path" :> "/g")],
       [id |-> 7, identity |-> <<"|", "C", "|">>, name |-> <<"C">>,
        primaryLabel |-> "RestController",
        properties |-> ("id" :> 7) @@ ("statistics.cyclomaticComplexity" :> 30)],
       [id |-> 8, identity |-> <<"|", "C", "|", "f">>, name |-> <<"f">>,
        primaryLabel |-> "JavaMethodEntity",
        properties |-> ("id" :> 8) @@ ("statistics.cyclomaticComplexity" :> 11)],
       [id |-> 9, identity |-> <<"|", "B", "|", "f">>, name |-> <<"f">>,
        primaryLabel |-> "DotNetMethodEntity",
        properties |-> ("id" :> 9) @@ ("statistics.instructionCount" :> 7)] >>

\* relationship lists of the raw impact responses
RelationshipLists ==
    { << >>,
      << [startId |-> 2, endId |-> 1, type |-> "CALLS"],
         [startId |-> 3, endId |-> 8, type |-> "CALLS"],
         [startId |-> 7, endId |-> 1, type |-> "CONTAINS"],
         [startId |-> 1, endId |-> 2, type |-> "CALLS"],
         [startId |-> 4, endId |-> 5, type |-> "REFERENCES_GROUP"],
         [startId |-> 4, endId |-> 3, type |-> "GROUPS"],
         [startId |-> 9, endId |-> 1, type |-> "CALLS"] >> }

\* node lists without a repeated id (an id is unique within a response)
NodeLists ==
    { q \in UNION { [1..n -> 1..Len(RawNodePool)] : n \in 1..MaxGraphNodes } :
          \A i, j \in DOMAIN q : i # j => RawNodePool[q[i]].id # RawNodePool[q[j]].id }

ReportGraphs ==
    { [nodes |-> [i \in 1..Len(q) |-> RawNodePool[q[i]]], relationships |-> r] :
          q \in NodeLists, r \in RelationshipLists }

ReportArguments == { [method |-> <<"f">>],
                     [method |-> <<"f">>, class |-> <<"A">>] }

InitReport ==
    /\ now = 0
    /\ cached_token = 1
    /\ token_expiry = TOKEN_CACHE_TTL
    /\ name = "codelogic-method-impact"
    /\ arguments \in ReportArguments
    /\ mv_def_id = "d1"
    /\ mv_id = "v1"
    /\ nodes = <<SN1>>
    /\ node = SN1
    /\ impact_id = SN1.properties.id
    /\ \E raw \in ReportGraphs :
           /\ impact = strip_unused_properties(raw)
           /\ impact_cache = (impact_id :> <<impact, IMPACT_CACHE_TTL>>)
           /\ last_impact = (impact_id :> impact)
    /\ method_nodes_cache =
           (cache_key(mv_id, method_name) :> <<nodes, METHOD_CACHE_TTL>>)
    /\ last_nodes = (cache_key(mv_id, method_name) :> nodes)
    /\ pc = "report"
    /\ caller = "get_impact"
    /\ anow = 0
    /\ fnow = 0
    /\ token = 1
    /\ token_exp = TOKEN_CACHE_TTL
    /\ search_results = <<>>
    /\ idx = 0
    /\ all_impacts = <<>>
    /\ skipped = <<>>
    /\ result = NoResult
    /\ calls = 0
    /\ reqs = <<>>
    /\ issued = 1
    /\ last_report = <<>>
    /\ threads = <<>>

NextReport ==
    \/ method_impact_report
    \/ return_result

SpecReport == InitReport /\ [][NextReport]_vars


(***************************************************************************)
(* Termination.  All tools, with search results longer than the limit of   *)
(* the database loop, at one instant of the clock.  Every request is       *)
(* answered in the end (the client has a connect and a total timeout) and  *)
(* a handler that can take a step takes it.                                *)
(***************************************************************************)
\* the search matches nothing, or more entities than the loop processes
LongEntityLists == { es \in EntityLists : Len(es) \in {0, MaxMatched} }

Progress ==
    \/ Steps
    \/ get_mv_definition_id_response
    \/ get_mv_id_from_def_response
    \/ get_method_nodes
    \/ get_method_nodes_response
    \/ select_root
    \/ method_impact_report
    \/ search_database_entity_response(LongEntityLists)

NextLive ==
    \/ handle_call_tool
    \/ Progress

SpecLive == Init /\ [][NextLive]_vars /\ WF_vars(Progress)


(***************************************************************************)
(* utils.authenticate called by concurrent callers.  The function takes no *)
(* lock: each statement that reads or writes the token slot is a step of   *)
(* its own, and the steps of different calls interleave freely.            *)
(***************************************************************************)
MaxThreads == 2

Threads == 1..MaxThreads

\* the locals of one call: its position, its `now`, the access_token of its
\* response, the value it returned; and as history what its test of the slot
\* found, the number of credential exchanges it sent, and which calls had
\* stored a token when it tested the slot
NoCall == [pc |-> "start", now |-> 0, response |-> NoToken, returned |-> NoToken,
           observed |-> "", posts |-> 0, stored_before |-> {}]

\* the calls that have assigned _cached_token
Stored == {t \in Threads : /\ threads[t].response # NoToken
                           /\ threads[t].pc \in {"store_expiry", "return", "returned"}}

\* now = datetime.now()
auth_now(t) ==
    /\ threads[t].pc = "start"
    /\ threads' = [threads EXCEPT ![t].pc = "check", ![t].now = now]
    /\ UNCHANGED <<now, slot, caches, pc, frame, result, calls, reqs, history>>

\* the test of the cached token, and _client.post(...) if it fails
auth_check(t) ==
    /\ threads[t].pc = "check"
    /\ IF /\ cached_token # NoToken
          /\ token_expiry # NoExpiry
          /\ threads[t].now < token_expiry
       THEN threads' = [threads EXCEPT ![t].pc = "return",
                                       ![t].observed = "valid"]
       ELSE threads' = [threads EXCEPT ![t].pc = "post",
                                       ![t].observed = "invalid",
                                       ![t].posts = threads[t].posts + 1,
                                       ![t].stored_before = Stored]
    /\ UNCHANGED <<now, slot, caches, pc, frame, result, calls, reqs, history>>

\* the response arrives: raise_for_status() and response.json()
auth_post_response(t) ==
    /\ threads[t].pc = "post"
    /\ \/ /\ issued' = issued + 1
          /\ threads' = [threads EXCEPT ![t].pc = "store_token",
                                        ![t].response = issued + 1]
       \/ /\ threads' = [threads EXCEPT ![t].pc = "raised"]
          /\ UNCHANGED issued
    /\ UNCHANGED <<now, slot, caches, pc, frame, result, calls, reqs, last_nodes,
                   last_impact, last_report>>

\* _cached_token = response.json()['access_token']
auth_store_token(t) ==
    /\ threads[t].pc = "store_token"
    /\ cached_token' = threads[t].response
    /\ threads' = [threads EXCEPT ![t].pc = "store_expiry"]
    /\ UNCHANGED <<now, token_expiry, caches, pc, frame, result, calls, reqs, history>>

\* mutant: the expiry is counted from the time the response is stored
expiry_from_arrival(t) == now + TOKEN_CACHE_TTL

\* now + timedelta(seconds=TOKEN_CACHE_TTL), `now` the local of the call
expiry_from_start(t) == threads[t].now + TOKEN_CACHE_TTL

\* _token_expiry = now + timedelta(seconds=TOKEN_CACHE_TTL)
auth_store_expiry(t) ==
    /\ threads[t].pc = "store_expiry"
    /\ token_expiry' = expiry_from_start(t)
    /\ threads' = [threads EXCEPT ![t].pc = "return"]
    /\ UNCHANGED <<now, cached_token, caches, pc, frame, result, calls, reqs, history>>

\* return _cached_token: the value of the global at that moment
auth_return(t) ==
    /\ threads[t].pc = "return"
    /\ threads' = [threads EXCEPT ![t].pc = "returned", ![t].returned = cached_token]
    /\ UNCHANGED <<now, slot, caches, pc, frame, result, calls, reqs, history>>

\* the slot is empty, or holds the token of a call made at time 0
InitAuth ==
    /\ now = 0
    /\ \/ /\ cached_token = NoToken /\ token_expiry = NoExpiry /\ issued = 0
       \/ /\ cached_token = 1 /\ token_expiry = TOKEN_CACHE_TTL /\ issued = 1
    /\ threads = [t \in Threads |-> NoCall]
    /\ method_nodes_cache = <<>> /\ impact_cache = <<>>
    /\ pc = "idle" /\ name = "" /\ arguments = <<>> /\ caller = ""
    /\ anow = 0 /\ fnow = 0 /\ token = NoToken /\ token_exp = NoExpiry
    /\ mv_def_id = "" /\ mv_id = "" /\ nodes = <<>> /\ node = NoNode
    /\ impact_id = 0 /\ impact = NoImpact /\ search_results = <<>>
    /\ idx = 0 /\ all_impacts = <<>> /\ skipped = <<>>
    /\ result = NoResult /\ calls = 0 /\ reqs = <<>>
    /\ last_nodes = <<>> /\ last_impact = <<>> /\ last_report = <<>>

NextAuth ==
    \/ Tick
    \/ \E t \in Threads :
           \/ auth_now(t)
           \/ auth_check(t)
           \/ auth_post_response(t)
           \/ auth_store_token(t)
           \/ auth_store_expiry(t)
           \/ auth_return(t)

SpecAuth == InitAuth /\ [][NextAuth]_vars


(***************************************************************************)
(* Properties.                                                             *)
(***************************************************************************)
Last(q) == q[Len(q)]
Count(q, kind) == Cardinality({i \in 1..Len(q) : q[i].kind = kind})
Method == "codelogic-method-impact"
Database == "codelogic-database-impact"

\* C1: authenticate() returns the cached token without a request iff a
\* token is cached and now < its expiry; otherwise it sends exactly one
\* credential exchange and, on success, stores (new token, time of the
\* call + TOKEN_CACHE_TTL) in the slot and returns the new token.
C1_Step ==
    /\ pc = "auth" =>
         IF cached_token # NoToken /\ now < token_expiry
         THEN /\ token' = cached_token
              /\ Count(reqs', "auth") = Count(reqs, "auth")
              /\ pc' # "wait_auth"
              /\ UNCHANGED slot
         ELSE /\ pc' = "wait_auth"
              /\ reqs' = Append(reqs, Request("auth", NoToken, NoExpiry, "password"))
              /\ UNCHANGED <<slot, token>>
    /\ pc = "wait_auth" =>
         /\ Count(reqs', "auth") = Count(reqs, "auth")
         /\ IF reqs'[Len(reqs)].outcome = "ok"
            THEN /\ cached_token' \notin {NoToken, cached_token}
                 /\ token_expiry' = Last(reqs).time + TOKEN_CACHE_TTL
                 /\ token' = cached_token'
            ELSE UNCHANGED <<slot, token>>

C1_Authenticate == [][C1_Step]_vars

\* One invocation in which the first authenticate() exchanged credentials
\* and stored the token, and the second returned it from the slot.
C1_Witness ==
    /\ pc = "wait_search"
    /\ Count(reqs, "auth") = 1
    /\ reqs[1].kind = "auth" /\ reqs[1].outcome = "ok"
    /\ token = cached_token
    /\ token_expiry = reqs[1].time + TOKEN_CACHE_TTL
    /\ now < token_expiry


\* C2: every request that carries a bearer token is sent strictly before
\* the expiry recorded for that token.
C2_NoTokenPastExpiry ==
    \A i \in 1..Len(reqs) :
        reqs[i].token # NoToken => reqs[i].time < reqs[i].expiry


\* C3: for the node-search cache and the impact cache, a lookup at a time
\* strictly before the entry's expiry returns the value stored by the last
\* successful fetch for that key, sends no request and leaves the caches
\* alone; a lookup at or after the expiry, or without an entry, starts a
\* fresh fetch whose success reinserts the fetched value with the expiry
\* one TTL after the time of the lookup.
C3_Lookup(here, cache, key, last, returned, hit_pc, who) ==
    pc = here =>
        IF key \in DOMAIN cache /\ now < cache[key][2]
        THEN /\ returned = last[key]
             /\ returned = cache[key][1]
             /\ pc' = hit_pc
             /\ UNCHANGED <<reqs, caches, slot>>
        ELSE /\ pc' = "auth" /\ caller' = who /\ fnow' = now
             /\ UNCHANGED <<reqs, caches>>

C3_Refill(here, cache_after, key, returned, last_after, ttl) ==
    (pc = here /\ reqs'[Len(reqs)].outcome = "ok") =>
        /\ key \in DOMAIN cache_after
        /\ cache_after[key] = <<returned, fnow + ttl>>
        /\ last_after[key] = returned
        /\ fnow <= Last(reqs).time

C3_Step ==
    /\ C3_Lookup("get_method_nodes", method_nodes_cache,
                 cache_key(mv_id, method_name), last_nodes, nodes', "select",
                 "get_method_nodes")
    /\ C3_Lookup("get_impact", impact_cache, impact_id, last_impact, impact',
                 AfterImpactPc, "get_impact")
    /\ C3_Refill("wait_search", method_nodes_cache',
                 cache_key(mv_id, method_name), nodes', last_nodes',
                 METHOD_CACHE_TTL)
    /\ C3_Refill("wait_impact", impact_cache', impact_id, impact', last_impact',
                 IMPACT_CACHE_TTL)

C3_CacheFreshness == [][C3_Step]_vars

\* A method-impact invocation whose node list and impact both came from the
\* caches: it sent the two view lookups and nothing else.
C3_Witness ==
    /\ pc = "report"
    /\ name = Method
    /\ Count(reqs, "search") = 0 /\ Count(reqs, "impact") = 0
    /\ nodes # <<>>
    /\ impact = last_impact[impact_id]


\* C4: when the shortname search of a method-impact invocation fails
\* (timeout, HTTP error status), get_method_nodes hands the empty list back
\* to the handler instead of raising, no impact request is sent, and the
\* invocation ends with the one-block 'Unable to Analyze Method' report.
SearchFailed ==
    \E i \in 1..Len(reqs) : reqs[i].kind = "search" /\ reqs[i].outcome = "failed"

C4_FailSoftSearch ==
    (name = Method /\ SearchFailed) =>
        /\ nodes = <<>>
        /\ Count(reqs, "impact") = 0
        /\ impact = NoImpact
        /\ pc \in {"select", "done"}
        /\ pc = "done" =>
             /\ result.raised = FALSE
             /\ Len(result.blocks) = 1
             /\ result.blocks[1].type = "text"
             /\ result.blocks[1].text =
                    [kind |-> "UnableToAnalyzeMethod", method |-> arguments.method]

\* The search timed out and the invocation has returned the report.
C4_Witness ==
    /\ pc = "done"
    /\ name = Method
    /\ SearchFailed
    /\ result.blocks[1].text.kind = "UnableToAnalyzeMethod"


\* C5: when the full-impact request of a method-impact invocation fails, or
\* the authentication get_impact asked for fails, get_impact returns no
\* value, and the invocation ends with the error block of the dispatcher
\* and no report.
ImpactFailed ==
    /\ reqs # <<>>
    /\ Last(reqs).outcome = "failed"
    /\ \/ Last(reqs).kind = "impact"
       \/ Last(reqs).kind = "auth" /\ caller = "get_impact"

C5_FailHardImpact ==
    (name = Method /\ ImpactFailed) =>
        /\ pc = "done"
        /\ impact = NoImpact
        /\ impact_id \notin DOMAIN impact_cache
               \/ impact_cache[impact_id][2] <= Last(reqs).time
        /\ result.raised = FALSE
        /\ Len(result.blocks) = 1
        /\ result.blocks[1].text.kind = "Error"
        /\ result.blocks[1].text.tool = Method
        /\ result.blocks[1].text.message \in
               {"dependency/impact/full", "authenticate"}

\* The impact request got an error status after a successful search.
C5_Witness ==
    /\ pc = "done"
    /\ name = Method
    /\ ImpactFailed
    /\ Last(reqs).kind = "impact"
    /\ Count(reqs, "search") = 1
    /\ result.blocks[1].text.kind = "Error"


\* C6: the value get_impact returned and every value held in the impact
\* cache have no node whose properties contain one of the keys designated
\* for removal.
Clean(g) ==
    \A i \in 1..Len(g.nodes) :
        "properties" \in DOMAIN g.nodes[i] =>
            (DOMAIN g.nodes[i].properties) \cap
                {"agentIds", "sourceScanContextIds", "isScanRoot",
                 "transitiveSourceNodeId", "dataSourceId", "scanContextId",
                 "id", "shortName", "materializedViewId",
                 "statistics.impactScore", "codelogic.quality.impactScore",
                 "identity", "name"} = {}

C6_PropertyStripping ==
    /\ Clean(impact)
    /\ \A k \in DOMAIN impact_cache : Clean(impact_cache[k][1])

\* An impact served from the cache: its root node lost the internal keys
\* and kept the complexity metric.
C6_Witness ==
    /\ pc = "report"
    /\ Count(reqs, "impact") = 0
    /\ Len(impact.nodes) = 2
    /\ DOMAIN impact.nodes[1].properties = {"statistics.cyclomaticComplexity"}
    /\ impact \in {strip_unused_properties(RawGraphA(r)) : r \in 1..2}


\* C7: handle_call_tool never raises; whenever the handler it ran raised
\* (unknown tool, argument check, failed authentication or view lookup,
\* failed impact fetch, class not found) it returns exactly one text block
\* with the message of the failure and the pointer to the server logs.
C7_RequestFailure ==
    IF reqs = <<>> \/ Last(reqs).outcome # "failed" THEN NoExc
    ELSE CASE Last(reqs).kind = "def" -> Exc("any", "materialized-view-definition")
           [] Last(reqs).kind = "view" -> Exc("any", "materialized-view")
           [] Last(reqs).kind = "impact" -> Exc("any", "dependency/impact/full")
           [] Last(reqs).kind = "auth" /\ caller \in {"get_mv_id", "get_impact"} ->
                  Exc("any", "authenticate")
           [] OTHER -> NoExc

C7_Failure ==
    IF name \notin ToolNames THEN Exc("ValueError", "Unknown tool")
    ELSE IF name = Method
    THEN IF method_impact_validate(arguments) # NoExc
         THEN method_impact_validate(arguments)
         ELSE IF C7_RequestFailure # NoExc THEN C7_RequestFailure
         ELSE IF /\ nodes # <<>>
                 /\ class_name # EmptyStr
                 /\ \A i \in 1..Len(nodes) : ~ClassMatches(nodes[i], class_name)
         THEN Exc("ValueError", "No matching class found")
         ELSE NoExc
    ELSE IF name = Database THEN database_impact_validate(arguments)
    ELSE template_tool_validate(name, arguments)

C7_DispatchBoundary ==
    pc = "done" =>
        /\ result.raised = FALSE
        /\ Len(result.blocks) = 1
        /\ result.blocks[1].type = "text"
        /\ (result.blocks[1].text.kind = "Error") = (C7_Failure # NoExc)
        /\ C7_Failure # NoExc =>
             /\ result.blocks[1].text.tool = name
             /\ result.blocks[1].text.message = C7_Failure.msg
             /\ result.blocks[1].text.logs =
                    "Please check the server logs for more details."

\* The view lookup of a method-impact invocation failed with a transport
\* error and the client got the error block.
C7_Witness ==
    /\ pc = "done"
    /\ name = Method
    /\ reqs # <<>>
    /\ Last(reqs).kind = "view" /\ Last(reqs).outcome = "failed"
    /\ result.raised = FALSE
    /\ result.blocks[1].text.message = "materialized-view"


\* C8: a call with a name outside the registered tools sends no request,
\* leaves the token slot and both caches as they were, and returns the
\* error block for the unknown tool.
C8_Step ==
    /\ (pc = "idle" /\ pc' # "idle" /\ name' \notin ToolNames) =>
           /\ reqs' = <<>>
           /\ UNCHANGED <<slot, caches>>
           /\ pc' = "done"
           /\ result' = [raised |-> FALSE, blocks |->
                  << [type |-> "text", text |->
                        [kind |-> "Error", tool |-> name',
                         message |-> "Unknown tool",
                         logs |-> "Please check the server logs for more details."]] >>]
    /\ (name # "" /\ name \notin ToolNames) =>
           /\ reqs' = <<>>
           /\ UNCHANGED <<slot, caches>>

C8_UnknownTool == [][C8_Step]_vars

\* An unknown tool was called while a token and entries of both caches
\* were stored.
C8_Witness ==
    /\ pc = "done"
    /\ name \in UnknownToolNames
    /\ reqs = <<>>
    /\ cached_token # NoToken
    /\ DOMAIN method_nodes_cache # {} /\ DOMAIN impact_cache # {}
    /\ result.blocks[1].text.message = "Unknown tool"


\* C9: in a method-impact invocation the requests go out in the order
\* (authenticate,) definition lookup, view lookup, search, impact fetch;
\* a request is sent only after every earlier one succeeded; the view
\* lookup carries the definition id the definition lookup returned, the
\* search the view id the view lookup returned, and the impact fetch the id
\* of a node selected from a non-empty search result.
NonAuth == SelectSeq(reqs, LAMBDA r : r.kind # "auth")
KindsSent == [i \in 1..Len(NonAuth) |-> NonAuth[i].kind]
FetchOrders == { <<>>, <<"def">>, <<"def", "view">>,
                 <<"def", "view", "search">>, <<"def", "view", "impact">>,
                 <<"def", "view", "search", "impact">> }

C9_FetchOrder ==
    name = Method =>
        /\ KindsSent \in FetchOrders
        /\ \A i \in 1..(Len(reqs) - 1) : reqs[i].outcome = "ok"
        /\ \A i \in 1..Len(reqs) :
             /\ reqs[i].kind = "auth" => i = Len(reqs) \/ reqs[i + 1].kind # "auth"
             /\ reqs[i].kind # "auth" => reqs[i].token \in 1..issued
             /\ reqs[i].kind = "view" => reqs[i].arg = mv_def_id /\ mv_def_id \in DefIds
             /\ reqs[i].kind = "search" =>
                    /\ mv_id \in MvIds
                    /\ reqs[i].arg = <<mv_id, arguments.method>>
             /\ reqs[i].kind = "impact" => reqs[i].arg = node.properties.id
        /\ (pc \in {"get_impact", "wait_impact", "report"} \/ caller = "get_impact") =>
             /\ nodes # <<>>
             /\ \E i \in 1..Len(nodes) : nodes[i] = node
             /\ impact_id = node.properties.id
             /\ mv_id \in MvIds

\* All four fetches were sent and answered, and the report was returned.
C9_Witness ==
    /\ pc = "done"
    /\ name = Method
    /\ KindsSent = <<"def", "view", "search", "impact">>
    /\ \A i \in 1..Len(reqs) : reqs[i].outcome = "ok"
    /\ result.blocks[1].text.kind = "ImpactAnalysisForMethod"


\* C10: in a database-impact invocation every matched entity within the
\* limit is either summarised or logged and skipped; a failure for one
\* entity does not end the loop, and the tool returns one combined report
\* whose impacts are those of exactly the entities that were not skipped,
\* in the order of the search result.
SkippedSet == {skipped[i] : i \in 1..Len(skipped)}
Succeeded == (1..Len(Processed(search_results))) \ SkippedSet
NthSucceeded(j) ==
    CHOOSE k \in Succeeded : Cardinality({m \in Succeeded : m < k}) = j - 1

C10_PartialBatch ==
    (name = Database /\ search_results # <<>>) =>
        /\ pc = "db_loop" =>
             /\ SkippedSet \subseteq 1..(idx - 1)
             /\ Len(all_impacts) + Len(skipped) = idx - 1
        /\ pc = "done" =>
             /\ result.raised = FALSE
             /\ Len(result.blocks) = 1
             /\ result.blocks[1].text.kind = "CombinedDatabaseReport"
             /\ result.blocks[1].text.search_results = search_results
             /\ LET reported == result.blocks[1].text.all_impacts
                IN  /\ Len(reported) = Cardinality(Succeeded)
                    /\ Len(reported) + Len(skipped) = Len(Processed(search_results))
                    /\ \A j \in 1..Len(reported) :
                         reported[j].impact_data.nodes[1].id =
                             search_results[NthSucceeded(j)].id

\* Five entities matched, the impact request of the third failed, and the
\* report has the other four.
C10_Witness ==
    /\ pc = "done"
    /\ name = Database
    /\ Len(search_results) = 5
    /\ skipped = <<3>>
    /\ \E i \in 1..Len(reqs) :
           reqs[i].kind = "impact" /\ reqs[i].outcome = "failed"
                /\ reqs[i].arg = search_results[3].id
    /\ Len(result.blocks[1].text.all_impacts) = 4


\* C11: a database-impact call whose arguments lack entity_type or name,
\* name an entity_type outside column/table/view, or ask for a column
\* without table_or_view, ends in the error block without any request
\* being sent and with the token slot and both caches as they were.
C11_Invalid(a) ==
    \/ "entity_type" \notin DOMAIN a
    \/ "name" \notin DOMAIN a
    \/ a.entity_type \notin {"column", "table", "view"}
    \/ a.entity_type = "column" /\ "table_or_view" \notin DOMAIN a

C11_Step ==
    /\ (pc = "idle" /\ pc' # "idle" /\ name' = Database /\ C11_Invalid(arguments')) =>
           /\ reqs' = <<>>
           /\ UNCHANGED <<slot, caches>>
           /\ pc' = "done"
           /\ Len(result'.blocks) = 1
           /\ result'.blocks[1].text.kind = "Error"
    /\ (name = Database /\ C11_Invalid(arguments)) =>
           /\ reqs' = <<>>
           /\ UNCHANGED <<slot, caches>>

C11_ValidationFirst == [][C11_Step]_vars

\* A column search without table_or_view was rejected while a token and an
\* impact were cached.
C11_Witness ==
    /\ pc = "done"
    /\ name = Database
    /\ arguments = [entity_type |-> "column", name |-> "id"]
    /\ reqs = <<>>
    /\ cached_token # NoToken
    /\ DOMAIN impact_cache # {}
    /\ result.blocks[1].text.message =
           "Table or view name must be provided for column searches"


\* C12: among the nodes of the impact graph of a method type whose name
\* contains the method name without regard to case (narrowed to those whose
\* identity contains the class name when that leaves any), the target is a
\* node with a cyclomatic-complexity statistic whenever a candidate has
\* one, wherever it stands in the graph; when none has one the target is
\* the first candidate (Java methods are listed before DotNet methods).
ComplexityKey == "statistics.cyclomaticComplexity"

C12_IsMethod(n) == n.primaryLabel \in {"JavaMethodEntity", "DotNetMethodEntity"}

C12_Candidates ==
    LET all == {i \in 1..Len(impact.nodes) :
                   /\ C12_IsMethod(impact.nodes[i])
                   /\ Contains(Lower(arguments.method), Lower(impact.nodes[i].name))}
        narrowed == {i \in all :
                        Contains(Lower(class_name), Lower(impact.nodes[i].identity))}
    IN  IF class_name # EmptyStr /\ narrowed # {} THEN narrowed ELSE all

C12_Carries(i) ==
    /\ "properties" \in DOMAIN impact.nodes[i]
    /\ ComplexityKey \in DOMAIN impact.nodes[i].properties
    /\ impact.nodes[i].properties[ComplexityKey] # None

C12_FirstCandidate ==
    LET java == {i \in C12_Candidates :
                    impact.nodes[i].primaryLabel = "JavaMethodEntity"}
        from == IF java # {} THEN java ELSE C12_Candidates
    IN  CHOOSE i \in from : \A j \in from : i <= j

Reported == result.blocks[1].text

C12_TargetPrecedence ==
    (pc = "done" /\ name = Method /\ Reported.kind = "ImpactAnalysisForMethod") =>
        LET t == target_node(extract_nodes(impact), method_name, class_name, node)
        IN  /\ (\E i \in C12_Candidates : C12_Carries(i)) =>
                   /\ t # <<>>
                   /\ \E i \in C12_Candidates :
                          /\ C12_Carries(i)
                          /\ t[1].id = impact.nodes[i].id
                          /\ Reported.complexity =
                                 impact.nodes[i].properties[ComplexityKey]
            /\ (C12_Candidates # {} /\ \A i \in C12_Candidates : ~C12_Carries(i)) =>
                   /\ t # <<>>
                   /\ t[1].id = impact.nodes[C12_FirstCandidate].id
                   /\ Reported.complexity \in {None, NotAvailable}

\* The graph lists a candidate without the statistic before one with it,
\* and the report has the complexity of the second.
C12_Witness ==
    /\ pc = "done"
    /\ name = Method
    /\ Reported.kind = "ImpactAnalysisForMethod"
    /\ Len(impact.nodes) >= 2
    /\ 1 \in C12_Candidates /\ ~C12_Carries(1)
    /\ 2 \in C12_Candidates /\ C12_Carries(2)
    /\ Reported.complexity = impact.nodes[2].properties[ComplexityKey]


\* C13: when no node of a method type in the impact graph matches the
\* method name and the root node (the search result whose id was used for
\* the impact fetch) is in the graph, the report's complexity and
\* instruction count are those of the root node.
C13_NoMethodMatch ==
    \A i \in 1..Len(impact.nodes) :
        ~(/\ C12_IsMethod(impact.nodes[i])
          /\ Contains(Lower(arguments.method), Lower(impact.nodes[i].name)))

C13_MetricOf(n, key) ==
    IF "properties" \in DOMAIN n /\ key \in DOMAIN n.properties
    THEN n.properties[key]
    ELSE NotAvailable

C13_RootFallback ==
    (pc = "done" /\ name = Method /\ Reported.kind = "ImpactAnalysisForMethod"
         /\ C13_NoMethodMatch) =>
        \A i \in 1..Len(impact.nodes) :
            impact.nodes[i].id = node.properties.id =>
                /\ Reported.complexity = C13_MetricOf(impact.nodes[i], ComplexityKey)
                /\ Reported.instruction_count =
                       C13_MetricOf(impact.nodes[i], "statistics.instructionCount")


\* C15: the dependents of the report are the relationships of the impact
\* graph whose end node is the resolved target node, one entry (name and
\* type of the start node, type of the relationship) each, in graph order.
C15_Incoming(target_id) ==
    SelectSeq(impact.relationships, LAMBDA rel :
        /\ \E i \in 1..Len(impact.nodes) : impact.nodes[i].id = rel.startId
        /\ \E i \in 1..Len(impact.nodes) : impact.nodes[i].id = rel.endId
        /\ rel.endId = target_id)

C15_NodeWithId(id) ==
    impact.nodes[CHOOSE i \in 1..Len(impact.nodes) : impact.nodes[i].id = id]

C15_Dependents ==
    (pc = "done" /\ name = Method /\ Reported.kind = "ImpactAnalysisForMethod") =>
        LET t == target_node(extract_nodes(impact), method_name, class_name, node)
        IN  t # <<>> =>
                LET incoming == C15_Incoming(t[1].id)
                IN  Reported.dependents =
                        [i \in 1..Len(incoming) |->
                            [name |-> C15_NodeWithId(incoming[i].startId).name,
                             type |-> C15_NodeWithId(incoming[i].startId).primaryLabel,
                             relationship |-> incoming[i].type]]


\* C14 (as stated): method-impact fails with the class-not-found error
\* exactly when a class name is supplied and no node of the initial search
\* has an identity that contains the class name; when some node's identity
\* contains it, that node is the root and there is no such error.
SearchReturned ==
    /\ pc = "done"
    /\ name = Method
    /\ \E i \in 1..Len(reqs) : reqs[i].kind = "view" /\ reqs[i].outcome = "ok"

ClassNotFound ==
    /\ Reported.kind = "Error"
    /\ Reported.message = "No matching class found"

C14_AsStated ==
    SearchReturned =>
        /\ ClassNotFound <=>
               /\ class_name # EmptyStr
               /\ \A i \in 1..Len(nodes) : ~Contains(class_name, nodes[i].identity)
        /\ (/\ class_name # EmptyStr
            /\ \E i \in 1..Len(nodes) : Contains(class_name, nodes[i].identity)) =>
               Contains(class_name, node.identity)

\* C14 (amended): method-impact fails with the class-not-found error
\* exactly when a class name is supplied, the initial search returned at
\* least one node, and no returned node's identity contains the class name
\* (its last dotted segment) between bars, as |Class| or |Class.class|;
\* when some node's identity does, the first such node is the root.
C14_Delimited(i) ==
    \/ Contains(<<"|">> \o class_name \o <<"|">>, nodes[i].identity)
    \/ Contains(<<"|">> \o class_name \o <<".", "c", "l", "a", "s", "s", "|">>,
                nodes[i].identity)

C14_ClassNotFound ==
    SearchReturned =>
        /\ ClassNotFound <=>
               /\ class_name # EmptyStr
               /\ nodes # <<>>
               /\ \A i \in 1..Len(nodes) : ~C14_Delimited(i)
        /\ (class_name # EmptyStr /\ \E i \in 1..Len(nodes) : C14_Delimited(i)) =>
               \E i \in 1..Len(nodes) :
                   /\ C14_Delimited(i)
                   /\ \A j \in 1..(i - 1) : ~C14_Delimited(j)
                   /\ node = nodes[i]

\* The class B was asked for, the search returned a node of class AB, whose
\* identity contains "B", and the call failed with class not found.
C14_Witness ==
    /\ SearchReturned
    /\ class_name = <<"B">>
    /\ Len(nodes) = 2
    /\ Contains(class_name, nodes[1].identity)
    /\ ClassNotFound


\* C16: whenever a credential exchange fails during a tool invocation, the
\* invocation ends with the error block of the dispatcher, not a report.
ExchangeFailed ==
    \E i \in 1..Len(reqs) : reqs[i].kind = "auth" /\ reqs[i].outcome = "failed"

C16_AuthFailureSurfaced ==
    (pc = "done" /\ ExchangeFailed) =>
        /\ Len(result.blocks) = 1
        /\ Reported.kind = "Error"


\* C17: when the credential exchange fails, authenticate() hands the
\* failure to the function that called it, sends no second exchange in
\* that call, and leaves the token and its expiry as they were.
C17_Step ==
    (pc = "wait_auth" /\ reqs'[Len(reqs)].outcome = "failed") =>
        /\ UNCHANGED <<slot, token, token_exp, issued>>
        /\ Len(reqs') = Len(reqs)
        /\ pc' \notin {"auth", "wait_auth"}
        /\ caller = "get_mv_id" =>
               /\ pc' = "done"
               /\ result'.blocks[1].text.kind = "Error"
               /\ result'.blocks[1].text.message = "authenticate"
        /\ caller = "get_method_nodes" => pc' = "select" /\ nodes' = <<>>
        /\ (caller = "get_impact" /\ name = Method) =>
               /\ pc' = "done"
               /\ result'.blocks[1].text.message = "authenticate"
               /\ UNCHANGED impact
        /\ (caller = "get_impact" /\ name = Database) =>
               /\ pc' = "db_loop"
               /\ skipped' = Append(skipped, idx)
               /\ UNCHANGED <<impact, all_impacts>>

C17_FailedExchange == [][C17_Step]_vars

\* The exchange that was to replace an expired token failed: the expired
\* token and its expiry are still in the slot.
C17_Witness ==
    /\ pc = "done"
    /\ reqs # <<>>
    /\ Last(reqs).kind = "auth" /\ Last(reqs).outcome = "failed"
    /\ Count(reqs, "auth") = 1
    /\ cached_token # NoToken
    /\ token_expiry <= Last(reqs).time


\* C18: every method-impact invocation that gets as far as the node search
\* has sent the definition lookup and then the view lookup in this
\* invocation, also when the node list and the impact then come from the
\* caches; a failed lookup ends the invocation with the error block before
\* any search or impact request.
C18_PastView ==
    \/ pc \in {"get_method_nodes", "wait_search", "select", "get_impact",
               "wait_impact", "report"}
    \/ pc \in {"auth", "wait_auth"} /\ caller \in {"get_method_nodes", "get_impact"}
    \/ pc = "done" /\ Reported.kind \in {"UnableToAnalyzeMethod",
                                         "ImpactAnalysisForMethod"}
    \/ Count(reqs, "search") + Count(reqs, "impact") > 0

C18_LookupFailed ==
    \E i \in 1..Len(reqs) :
        reqs[i].kind \in {"def", "view"} /\ reqs[i].outcome = "failed"

C18_ViewResolution ==
    name = Method =>
        /\ C18_PastView =>
               \E i, j \in 1..Len(reqs) :
                   /\ i < j
                   /\ reqs[i].kind = "def" /\ reqs[i].outcome = "ok"
                   /\ reqs[j].kind = "view" /\ reqs[j].outcome = "ok"
                   /\ reqs[j].arg = mv_def_id
                   /\ \A k \in 1..Len(reqs) :
                          reqs[k].kind \in {"search", "impact"} => j < k
        /\ Count(reqs, "def") <= 1 /\ Count(reqs, "view") <= 1
        /\ C18_LookupFailed =>
               /\ pc = "done"
               /\ Reported.kind = "Error"
               /\ Count(reqs, "search") + Count(reqs, "impact") = 0
               /\ nodes = <<>> /\ impact = NoImpact

\* The second invocation: both lookups were sent again, the node list and
\* the impact came from the caches.
C18_Witness ==
    /\ pc = "done"
    /\ calls = 1
    /\ name = Method
    /\ Reported.kind = "ImpactAnalysisForMethod"
    /\ Len(reqs) = 2
    /\ reqs[1].kind = "def" /\ reqs[2].kind = "view"


\* C19: for an impact graph with Application nodes A and B and one
\* REFERENCES_GROUP relationship from A, going to B, the dependency mapping
\* has A -> [B], both are in the affected set and the cross-application
\* section lists both; every Application node of the graph is in the
\* affected set, with or without dependencies.
IsApplication(i) == impact.nodes[i].primaryLabel = "Application"

C19_References(i, j) ==
    {k \in 1..Len(impact.relationships) :
        /\ impact.relationships[k].type = "REFERENCES_GROUP"
        /\ impact.relationships[k].startId = impact.nodes[i].id
        /\ impact.relationships[k].endId = impact.nodes[j].id}

C19_CrossApplication ==
    (pc = "done" /\ name = Method /\ Reported.kind = "ImpactAnalysisForMethod") =>
        /\ \A i \in 1..Len(impact.nodes) :
               IsApplication(i) =>
                   impact.nodes[i].name \in Reported.affected_applications
        /\ \A i, j \in 1..Len(impact.nodes) :
               (/\ IsApplication(i) /\ IsApplication(j)
                /\ impact.nodes[i].name # impact.nodes[j].name
                /\ Cardinality(C19_References(i, j)) = 1
                /\ \A m \in 1..Len(impact.nodes) :
                       m # j => C19_References(i, m) = {}) =>
                   /\ app_dependencies(impact)[impact.nodes[i].name]
                          = <<impact.nodes[j].name>>
                   /\ Reported.cross_application_warning
                   /\ {impact.nodes[i].name, impact.nodes[j].name}
                          \subseteq DOMAIN Reported.cross_application
                   /\ Reported.cross_application[impact.nodes[i].name]
                          = <<impact.nodes[j].name>>

\* Application a1 references application a2, which has no dependency of
\* its own: the section lists a1 with a2, and a2 alone.
C19_Witness ==
    /\ pc = "done"
    /\ name = Method
    /\ Reported.kind = "ImpactAnalysisForMethod"
    /\ Reported.affected_applications = {<<"a", "1">>, <<"a", "2">>}
    /\ Reported.cross_application[<<"a", "1">>] = << <<"a", "2">> >>
    /\ Reported.cross_application[<<"a", "2">>] = << >>


\* C20: the complexity warning is in the report iff the complexity the
\* report shows for the target is present and greater than 10; the
\* cross-application warning iff more than one application is affected;
\* the REST alert iff the graph has an endpoint node, a controller node or
\* a method with a REST annotation.
C20_RestSignal(n) ==
    LET props == IF "properties" \in DOMAIN n THEN n.properties ELSE [k \in {} |-> 0]
    IN  \/ n.primaryLabel = "Endpoint" /\ {"httpVerb", "path"} \subseteq DOMAIN props
        \/ n.primaryLabel \in {"RestController", "ApiController"}
        \/ /\ C12_IsMethod(n)
           /\ "annotations" \in DOMAIN props
           /\ props["annotations"] \in
                  {"GetMapping", "PostMapping", "RequestMapping", "HttpGet"}

C20_RiskThresholds ==
    (pc = "done" /\ name = Method /\ Reported.kind = "ImpactAnalysisForMethod") =>
        /\ Reported.complexity_warning <=>
               /\ Reported.complexity # NotAvailable
               /\ Reported.complexity # None
               /\ Reported.complexity > 10
        /\ Reported.cross_application_warning <=>
               Cardinality(Reported.affected_applications) > 1
        /\ Reported.affected_applications =
               {impact.nodes[i].name : i \in {i \in 1..Len(impact.nodes) : IsApplication(i)}}
        /\ Reported.rest_alert <=>
               \E i \in 1..Len(impact.nodes) : C20_RestSignal(impact.nodes[i])

\* The target has complexity exactly 10 and is not flagged; two
\* applications are affected; there is no REST signal.
C20_Witness ==
    /\ pc = "done"
    /\ name = Method
    /\ Reported.kind = "ImpactAnalysisForMethod"
    /\ Reported.complexity = 10
    /\ ~Reported.complexity_warning
    /\ Reported.cross_application_warning
    /\ ~Reported.rest_alert


\* C21: a method-impact invocation whose arguments and impact graph were
\* reported before writes the same report again, whether the graph came
\* from the server or from the cache; in every report the applications are
\* in lexicographic order, the node table has one row per node in graph
\* order, and the relationship table has the relationships between nodes of
\* the graph in graph order.
C21_SameReport ==
    (pc = "report" /\ pc' = "done" /\ <<arguments, impact>> \in DOMAIN last_report) =>
        result'.blocks = last_report[<<arguments, impact>>]

C21_HasNode(id) == \E i \in 1..Len(impact.nodes) : impact.nodes[i].id = id

C21_Kept ==
    SelectSeq(impact.relationships,
              LAMBDA rel : C21_HasNode(rel.startId) /\ C21_HasNode(rel.endId))

C21_Order ==
    (pc = "done" /\ name = Method /\ Reported.kind = "ImpactAnalysisForMethod") =>
        /\ \A i, j \in 1..Len(Reported.application_rows) :
               i < j => StrLess(Reported.application_rows[i].app,
                                Reported.application_rows[j].app)
        /\ Cardinality(Reported.affected_applications) > 1 =>
               {Reported.application_rows[i].app :
                    i \in 1..Len(Reported.application_rows)}
                   = Reported.affected_applications
        /\ Len(Reported.nodes_table) = Len(impact.nodes)
        /\ \A i \in 1..Len(impact.nodes) :
               /\ Reported.nodes_table[i].name = impact.nodes[i].name
               /\ Reported.nodes_table[i].type = impact.nodes[i].primaryLabel
        /\ Len(Reported.relationship_table) = Len(C21_Kept)
        /\ \A i \in 1..Len(C21_Kept) :
               /\ Reported.relationship_table[i].row.type = C21_Kept[i].type
               /\ \E k \in 1..Len(impact.nodes) :
                      /\ impact.nodes[k].id = C21_Kept[i].startId
                      /\ impact.nodes[k].name = Reported.relationship_table[i].row.source

C22_AnalysisSucceeded == nodes # <<>> /\ impact # NoImpact

C22_TextBlock ==
    (pc = "done" /\ name = Method) =>
        /\ ~result.raised
        /\ Len(result.blocks) >= 1
        /\ result.blocks[1].type = "text"
        /\ IF C22_AnalysisSucceeded
           THEN /\ Reported.kind = "ImpactAnalysisForMethod"
                /\ Reported.method = arguments.method
           ELSE /\ Reported.kind \in {"UnableToAnalyzeMethod", "Error"}
                /\ Reported.kind = "UnableToAnalyzeMethod" =>
                       nodes = <<>> /\ Reported.method = arguments.method

\* One invocation ended with the 'Unable to Analyze' report for method f
\* after a search that answered with no nodes.
C22_Witness ==
    /\ pc = "done"
    /\ name = Method
    /\ reqs # <<>>
    /\ Last(reqs).kind = "search"
    /\ Last(reqs).outcome = "ok"
    /\ Reported.kind = "UnableToAnalyzeMethod"
    /\ Reported.method = <<"f">>


\* C23: a database-impact invocation calls get_impact only for the first 5
\* entries of its search result, in result order, each at most once, so it
\* sends at most 5 impact requests.
C23_First5 == {i \in 1..Len(search_results) : i <= 5}

C23_ImpactRequests == SelectSeq(reqs, LAMBDA r : r.kind = "impact")

C23_AtMostFive ==
    name = Database =>
        /\ Len(C23_ImpactRequests) <= 5
        /\ \A k \in 1..Len(C23_ImpactRequests) :
               \E i \in C23_First5 :
                   /\ C23_ImpactRequests[k].arg = search_results[i].id
                   /\ i >= k
        /\ pc \in {"get_impact", "wait_impact", "db_process"} =>
               /\ idx \in C23_First5
               /\ impact_id = search_results[idx].id
        /\ pc = "done" => Len(all_impacts) + Len(skipped) <= 5

\* Six entities matched; five impact requests were sent and the sixth
\* entity was never fetched.
C23_Witness ==
    /\ pc = "done"
    /\ name = Database
    /\ Len(search_results) = 6
    /\ Len(C23_ImpactRequests) = 5
    /\ \A k \in 1..5 : C23_ImpactRequests[k].arg = search_results[k].id


\* C24: a cached token, node list or impact is returned only at a time
\* before its expiry; when the fetch that replaces an expired or missing
\* entry fails, no cached value is returned in its place (get_method_nodes
\* returns the empty list, get_impact and authenticate raise); no entry ever
\* leaves a table, and an entry changes only by a successful fetch for its
\* own key.
C24_Succeeded == reqs'[Len(reqs)].outcome = "ok"
C24_Failed == reqs'[Len(reqs)].outcome = "failed"

C24_Returned ==
    /\ (pc = "auth" /\ pc' # "wait_auth") =>
           /\ cached_token # NoToken
           /\ now < token_expiry
           /\ token' = cached_token
    /\ (pc = "get_method_nodes" /\ pc' # "auth") =>
           /\ cache_key(mv_id, method_name) \in DOMAIN method_nodes_cache
           /\ now < method_nodes_cache[cache_key(mv_id, method_name)][2]
    /\ (pc = "get_impact" /\ pc' # "auth") =>
           /\ impact_id \in DOMAIN impact_cache
           /\ now < impact_cache[impact_id][2]

C24_FailedRefetch ==
    /\ (pc = "wait_search" /\ C24_Failed) => pc' = "select" /\ nodes' = <<>>
    /\ (pc = "wait_impact" /\ C24_Failed) =>
           /\ pc' \in {"done", "db_loop"}
           /\ impact' = impact
           /\ all_impacts' = all_impacts
    /\ (pc = "wait_auth" /\ C24_Failed) =>
           /\ pc' \in {"done", "db_loop", "select"}
           /\ token' = token
           /\ Len(reqs') = Len(reqs)

C24_Kept(cache, cache_after, here, key) ==
    \A k \in DOMAIN cache :
        /\ k \in DOMAIN cache_after
        /\ cache_after[k] # cache[k] => pc = here /\ C24_Succeeded /\ k = key

C24_NeverRemoved ==
    /\ C24_Kept(method_nodes_cache, method_nodes_cache', "wait_search",
                cache_key(mv_id, method_name))
    /\ C24_Kept(impact_cache, impact_cache', "wait_impact", impact_id)
    /\ cached_token # NoToken => cached_token' # NoToken
    /\ slot' # slot => pc = "wait_auth" /\ C24_Succeeded

C24_LazyExpiry == [][C24_Returned /\ C24_FailedRefetch /\ C24_NeverRemoved]_vars

\* The search for a key whose entry has expired failed: the entry, a list
\* of nodes, is still in the table and the caller got the empty list.
C24_Witness ==
    /\ pc = "select"
    /\ reqs # <<>>
    /\ Last(reqs).kind = "search"
    /\ Last(reqs).outcome = "failed"
    /\ cache_key(mv_id, method_name) \in DOMAIN method_nodes_cache
    /\ method_nodes_cache[cache_key(mv_id, method_name)][2] <= now
    /\ method_nodes_cache[cache_key(mv_id, method_name)][1] # <<>>
    /\ nodes = <<>>


\* C25 as stated: when two authenticate() calls both test the slot and find
\* no valid token before either has stored a token,
\* each returns the token of its own response, and once both have finished
\* the slot holds the token and the expiry written by one and the same call.
C25_Race(t, u) ==
    /\ t # u
    /\ threads[t].observed = "invalid" /\ threads[u].observed = "invalid"
    /\ u \notin threads[t].stored_before
    /\ t \notin threads[u].stored_before

C25_Finished(t) == threads[t].pc \in {"returned", "raised"}

C25_NoStoreUnderWay ==
    \A w \in Threads : threads[w].pc \notin {"store_token", "store_expiry"}

C25_AsStated ==
    \A t, u \in Threads :
        C25_Race(t, u) =>
            /\ threads[t].pc = "returned" => threads[t].returned = threads[t].response
            /\ (C25_Finished(t) /\ C25_Finished(u) /\ C25_NoStoreUnderWay /\ Stored # {}) =>
                   \E w \in Stored :
                       /\ cached_token = threads[w].response
                       /\ token_expiry = threads[w].now + TOKEN_CACHE_TTL

\* C25 (amended): in that interleaving both calls send a credential
\* exchange; a call that returns returns a token fetched by one of the
\* calls that stored one; once both have finished the slot holds a token
\* stored by one call and the expiry written by one call, not always the
\* same call, so the expiry is never later than the latest start of a
\* storing call plus the TTL.
C25_Sent(t) == threads[t].posts = 1

C25_Interleaved ==
    \A t, u \in Threads :
        C25_Race(t, u) =>
            /\ C25_Sent(t) /\ C25_Sent(u)
            /\ threads[t].pc = "returned" =>
                   threads[t].returned \in {threads[w].response : w \in Stored}
            /\ (C25_Finished(t) /\ C25_Finished(u) /\ C25_NoStoreUnderWay /\ Stored # {}) =>
                   /\ cached_token \in {threads[w].response : w \in Stored}
                   /\ token_expiry \in {threads[w].now + TOKEN_CACHE_TTL : w \in Stored}
                   /\ \E w \in Stored : token_expiry <= threads[w].now + TOKEN_CACHE_TTL

\* Two calls raced: call 1 returned the token of call 2, and the slot holds
\* the token of call 2 with the expiry of call 1, which started earlier.
C25_Witness ==
    /\ C25_Race(1, 2)
    /\ threads[1].pc = "returned" /\ threads[2].pc = "returned"
    /\ threads[1].response # NoToken
    /\ threads[1].returned = threads[2].response
    /\ threads[1].returned # threads[1].response
    /\ cached_token = threads[2].response
    /\ token_expiry = threads[1].now + TOKEN_CACHE_TTL
    /\ threads[1].now < threads[2].now


\* C26: if every request is answered in the end, every tool invocation,
\* whatever the tool name, ends by returning one text block.
C26_Termination ==
    (pc # "idle") ~> (pc = "done" /\ ~result.raised /\ Len(result.blocks) = 1)

\* A database-impact invocation over six matched entities has ended after
\* five turns of its loop, one of them skipped.
C26_Witness ==
    /\ pc = "done"
    /\ name = Database
    /\ Len(search_results) = 6
    /\ Len(all_impacts) = 4
    /\ Len(skipped) = 1
    /\ Len(result.blocks) = 1


\* C27: when the key asked for has an entry that has not expired,
\* get_method_nodes and get_impact return the entry's value without calling
\* authenticate and without a request, whatever the token slot holds, and
\* leave the token slot and both tables as they are.
C27_Hit(here, cache, key, returned, hit_pc) ==
    (pc = here /\ key \in DOMAIN cache /\ now < cache[key][2]) =>
        /\ returned = cache[key][1]
        /\ pc' = hit_pc
        /\ caller' = caller
        /\ reqs' = reqs
        /\ UNCHANGED <<cached_token, token_expiry, method_nodes_cache, impact_cache>>

C27_Step ==
    /\ C27_Hit("get_method_nodes", method_nodes_cache,
               cache_key(mv_id, method_name), nodes', "select")
    /\ C27_Hit("get_impact", impact_cache, impact_id, impact', AfterImpactPc)

C27_HitWithoutToken == [][C27_Step]_vars

\* A node list was served from the cache at a time when the token in the
\* slot had expired.
C27_Witness ==
    /\ pc = "select"
    /\ name = Method
    /\ Count(reqs, "search") = 0
    /\ nodes # <<>>
    /\ cached_token # NoToken
    /\ token_expiry <= now


\* C28: a failed node search (a failed request, or a failed authentication
\* inside get_method_nodes) and a failed impact fetch leave both tables as
\* they are, and the key is still without a live entry, so the next lookup
\* sends a request; a search that succeeds with no nodes is stored, and
\* while that entry lives a lookup returns the empty list with no request.
C28_Failed == reqs'[Len(reqs)].outcome = "failed"

C28_SearchFailed ==
    /\ \/ pc = "wait_search"
       \/ pc = "wait_auth" /\ caller = "get_method_nodes"
    /\ C28_Failed

C28_ImpactFailed ==
    /\ \/ pc = "wait_impact"
       \/ pc = "wait_auth" /\ caller = "get_impact"
    /\ C28_Failed

C28_Live(cache, key) == key \in DOMAIN cache /\ now < cache[key][2]

C28_Step ==
    /\ C28_SearchFailed =>
           /\ nodes' = <<>>
           /\ UNCHANGED <<method_nodes_cache, impact_cache>>
           /\ ~C28_Live(method_nodes_cache', cache_key(mv_id, method_name))
    /\ C28_ImpactFailed =>
           /\ UNCHANGED <<method_nodes_cache, impact_cache>>
           /\ ~C28_Live(impact_cache', impact_id)
    /\ (pc = "get_method_nodes"
        /\ ~C28_Live(method_nodes_cache, cache_key(mv_id, method_name))) =>
           pc' = "auth" /\ caller' = "get_method_nodes"
    /\ (pc = "get_impact" /\ ~C28_Live(impact_cache, impact_id)) =>
           pc' = "auth" /\ caller' = "get_impact"
    /\ (pc = "wait_search" /\ reqs'[Len(reqs)].outcome = "ok" /\ nodes' = <<>>) =>
           /\ cache_key(mv_id, method_name) \in DOMAIN method_nodes_cache'
           /\ method_nodes_cache'[cache_key(mv_id, method_name)]
                  = << <<>>, fnow + METHOD_CACHE_TTL >>
    /\ (pc = "get_method_nodes"
        /\ C28_Live(method_nodes_cache, cache_key(mv_id, method_name))
        /\ method_nodes_cache[cache_key(mv_id, method_name)][1] = <<>>) =>
           /\ nodes' = <<>>
           /\ pc' = "select"
           /\ reqs' = reqs

C28_FailuresNotCached == [][C28_Step]_vars

\* The second invocation was answered from an entry holding the empty list:
\* it ends with the 'Unable to Analyze' report without a search request.
C28_Witness ==
    /\ pc = "done"
    /\ calls = 1
    /\ name = Method
    /\ Reported.kind = "UnableToAnalyzeMethod"
    /\ Count(reqs, "search") = 0
    /\ Count(reqs, "view") = 1
    /\ Last(reqs).outcome = "ok"
    /\ cache_key(mv_id, method_name) \in DOMAIN method_nodes_cache
    /\ method_nodes_cache[cache_key(mv_id, method_name)][1] = <<>>


\* C29: authenticate, get_method_nodes and get_impact read the clock when
\* they are entered, and the expiry they store with a fetched value is that
\* time plus the TTL, however long the fetch took; a value is served only
\* less than one TTL after the start of the call that fetched it, and an
\* entry whose fetch took one TTL or more is expired from the moment it is
\* stored.
C29_Ok == reqs'[Len(reqs)].outcome = "ok"

C29_Stored(here, cache_after, key, start, ttl) ==
    (pc = here /\ C29_Ok) =>
        /\ key \in DOMAIN cache_after
        /\ cache_after[key][2] = start + ttl
        /\ start <= Last(reqs).time
        /\ now - start >= ttl => ~(now < cache_after[key][2])

C29_Step ==
    /\ pc = "auth" => anow' = now
    /\ pc \in {"get_method_nodes", "get_impact"} => fnow' = now
    /\ C29_Stored("wait_search", method_nodes_cache',
                  cache_key(mv_id, method_name), fnow, METHOD_CACHE_TTL)
    /\ C29_Stored("wait_impact", impact_cache', impact_id, fnow, IMPACT_CACHE_TTL)
    /\ (pc = "wait_auth" /\ C29_Ok) =>
           /\ token_expiry' = anow + TOKEN_CACHE_TTL
           /\ anow <= Last(reqs).time
           /\ now - anow >= TOKEN_CACHE_TTL => ~(now < token_expiry')
    /\ (pc = "get_method_nodes" /\ pc' # "auth") =>
           now < method_nodes_cache[cache_key(mv_id, method_name)][2]
    /\ (pc = "get_impact" /\ pc' # "auth") => now < impact_cache[impact_id][2]
    /\ (pc = "auth" /\ pc' # "wait_auth") => now < token_expiry

C29_ExpiryFromStart == [][C29_Step]_vars

\* A search that took the whole TTL: its node list was stored with an
\* expiry that had passed already.
C29_Witness ==
    /\ pc = "select"
    /\ reqs # <<>>
    /\ Last(reqs).kind = "search"
    /\ Last(reqs).outcome = "ok"
    /\ nodes # <<>>
    /\ method_nodes_cache[cache_key(mv_id, method_name)] = <<nodes, fnow + METHOD_CACHE_TTL>>
    /\ fnow + METHOD_CACHE_TTL <= now


\* C30: a database-impact invocation whose search matched something ends
\* with one text block holding the combined report over the whole search
\* result and the impacts it got, an empty list of impacts if every fetch
\* failed; it ends with the 'No ... found' text only when the search result
\* is empty, and then no impact was fetched; it ends with the error block
\* only for arguments that were refused before the search.
C30_AllFailed ==
    /\ Len(skipped) = Len(search_results) \/ Len(skipped) = 5
    /\ \A i \in 1..Len(reqs) : reqs[i].kind \in {"impact", "auth"} =>
                                   reqs[i].outcome = "failed"

C30_CombinedReport ==
    (pc = "done" /\ name = Database) =>
        /\ Len(result.blocks) = 1
        /\ search_results # <<>> =>
               /\ Reported.kind = "CombinedDatabaseReport"
               /\ Reported.search_results = search_results
               /\ Reported.all_impacts = all_impacts
               /\ C30_AllFailed => Reported.all_impacts = <<>>
        /\ Reported.kind = "NoEntitiesFound" =>
               /\ search_results = <<>>
               /\ Len(reqs) = 1
               /\ reqs[1].kind = "dbsearch"
        /\ Reported.kind = "Error" => reqs = <<>>

\* Six entities matched and each of the five impact requests failed: the
\* tool returned the combined report over the six entities and no impacts.
C30_Witness ==
    /\ pc = "done"
    /\ name = Database
    /\ Len(search_results) = 6
    /\ Count(reqs, "impact") = 5
    /\ C30_AllFailed
    /\ Reported.kind = "CombinedDatabaseReport"
    /\ Len(Reported.search_results) = 6
    /\ Reported.all_impacts = <<>>

====
